---- MODULE Spec2Model ----
(***************************************************************************)
(* Model of the bank-statement analyzer (services/bankAnalyzer.ts) and of   *)
(* the local account service (services/authService.ts).                    *)
(*                                                                         *)
(* Strings are TLA+ strings, taken apart with Len, SubSeq and \o.          *)
(* Money is an integer number of cents (the code holds it in a double);    *)
(* a quotient is an exact fraction <<numerator, denominator>> in lowest    *)
(* terms, so that two quotients are equal exactly when the tuples are.     *)
(***************************************************************************)
EXTENDS Integers, Sequences, FiniteSets, TLC

VARIABLES
    files,         \* Spec: the texts of the uploaded files, in the caller's order
    standardised,  \* SpecAgg: the standardised transactions handed to the aggregators
    pc,            \* "idle" (input being assembled), "done" (resolved), "rejected" (threw)
    derived,       \* the derived transactions of the finished run
    analysis,      \* the BankStatementAnalysis of the finished run, or NoAnalysis
    error,         \* the message of the thrown Error, or ""
    westOfUtc,     \* the host: TRUE when its time zone is behind UTC
    reads,         \* SpecReads: per file, <<>> while its read is pending, else <<text>>
    readOrder,     \* SpecReads: the indices of the files in the order their reads completed
    history,       \* SpecRuns: the inputs and the outcome of every finished run, oldest first
    recurringExpenses, \* SpecLeakage: the recurring expenses handed to summarizeLeakage
    leakageHotspots, \* SpecLeakage: what summarizeLeakage returned
    csvFields,     \* SpecCsv: the field contents of the record that was written
    csvRows,       \* SpecCsv: what parseCsv returned for the written record
    window,        \* SpecAuth: TRUE in a browser (typeof window !== 'undefined')
    localStorage,  \* SpecAuth: window.localStorage, the value under each key
    sessionStorage, \* SpecAuth: window.sessionStorage, the value under each key
    lastCall,      \* SpecAuth: the last call of the service and its outcome
    currentUser,   \* SpecAuth: what the last getCurrentUser returned
    classified     \* SpecClassify: the last classification, its input and its results

readVars == <<reads, readOrder>>
runVars == <<history>>
leakVars == <<recurringExpenses, leakageHotspots>>
csvVars == <<csvFields, csvRows>>
authVars == <<window, localStorage, sessionStorage, lastCall, currentUser>>
classVars == <<classified>>

vars == <<files, standardised, pc, derived, analysis, error, westOfUtc,
          readVars, runVars, leakVars, csvVars, authVars, classVars>>

\* The variables of SpecCsv and of SpecAuth in the specifications that leave them alone
NoCsv == csvFields = <<>> /\ csvRows = <<>>

NoClassified == classified = <<>>

NoCall == [op |-> "", ok |-> FALSE, user |-> <<>>, after |-> <<>>]

NoAuth ==
    /\ window = FALSE
    /\ localStorage = <<>>
    /\ sessionStorage = <<>>
    /\ lastCall = NoCall
    /\ currentUser = <<>>

-----------------------------------------------------------------------------
(* Bounds of the model *)

MaxFiles == 2
MaxTx == 3
MaxRecurring == 12
MaxRuns == 3
MaxFields == 3
MaxLedger == 4

-----------------------------------------------------------------------------
(* Program constants *)

RECURRING_MIN_MONTHS == 2
RECURRING_MIN_TX == 2
AMOUNT_ROUND_DECIMALS == 0
LEAKAGE_TOP_N == 10

-----------------------------------------------------------------------------
(* Strings *)

CharAt(s, i) == SubSeq(s, i, i)

UpperChars == "ABCDEFGHIJKLMNOPQRSTUVWXYZ"
LowerChars == "abcdefghijklmnopqrstuvwxyz"
DigitChars == "0123456789"

IsIn(c, alphabet) == \E i \in 1..Len(alphabet) : CharAt(alphabet, i) = c

IndexIn(c, alphabet) == CHOOSE i \in 1..Len(alphabet) : CharAt(alphabet, i) = c

ToUpperChar(c) == IF IsIn(c, LowerChars) THEN CharAt(UpperChars, IndexIn(c, LowerChars)) ELSE c

ToLowerChar(c) == IF IsIn(c, UpperChars) THEN CharAt(LowerChars, IndexIn(c, UpperChars)) ELSE c

RECURSIVE toUpperCase(_)
toUpperCase(s) ==
    IF s = "" THEN "" ELSE ToUpperChar(Head(s)) \o toUpperCase(Tail(s))

RECURSIVE toLowerCase(_)
toLowerCase(s) ==
    IF s = "" THEN "" ELSE ToLowerChar(Head(s)) \o toLowerCase(Tail(s))

\* String.prototype.includes
includes(s, kw) ==
    \E i \in 1..(Len(s) - Len(kw) + 1) : SubSeq(s, i, i + Len(kw) - 1) = kw

IsSpace(c) == c \in {" ", "\t"}

RECURSIVE trimStart(_)
trimStart(s) == IF s # "" /\ IsSpace(Head(s)) THEN trimStart(Tail(s)) ELSE s

RECURSIVE trimEnd(_)
trimEnd(s) ==
    IF s # "" /\ IsSpace(CharAt(s, Len(s))) THEN trimEnd(SubSeq(s, 1, Len(s) - 1)) ELSE s

trim(s) == trimEnd(trimStart(s))

\* A non-negative integer in decimal
RECURSIVE NatToString(_)
NatToString(n) ==
    IF n < 10 THEN CharAt(DigitChars, n + 1)
    ELSE NatToString(n \div 10) \o CharAt(DigitChars, (n % 10) + 1)

IntToString(n) == IF n < 0 THEN "-" \o NatToString(-n) ELSE NatToString(n)

\* String.prototype.padStart(2, '0')
padStart2(s) == IF Len(s) < 2 THEN (IF Len(s) = 1 THEN "0" \o s ELSE "00") ELSE s

\* The order of UTF-16 code units, for the characters a monthKey is made of
CodeOrder == "-0123456789"

RECURSIVE StrLess(_, _)
StrLess(a, b) ==
    IF b = "" THEN FALSE
    ELSE IF a = "" THEN TRUE
    ELSE IF Head(a) = Head(b) THEN StrLess(Tail(a), Tail(b))
    ELSE IndexIn(Head(a), CodeOrder) < IndexIn(Head(b), CodeOrder)

-----------------------------------------------------------------------------
(* Numbers *)

Abs(n) == IF n < 0 THEN -n ELSE n

Max(a, b) == IF a > b THEN a ELSE b

RECURSIVE Gcd(_, _)
Gcd(a, b) == IF b = 0 THEN a ELSE Gcd(b, a % b)

\* n / d as a fraction in lowest terms, d > 0
Frac(n, d) ==
    LET g == Gcd(Abs(n), d) IN
    IF n = 0 THEN <<0, 1>> ELSE <<n \div g, d \div g>>

FracOfInt(n) == <<n, 1>>

\* a - b < 0, a - b > 0 for two fractions
FracLess(a, b) == a[1] * b[2] < b[1] * a[2]

\* a - b
FracSub(a, b) == Frac(a[1] * b[2] - b[1] * a[2], a[2] * b[2])

-----------------------------------------------------------------------------
(* Classifier *)

MACRO_CATEGORY_MAP ==
    [c \in {"Rent", "Rego", "Insurance", "Utilities", "Groceries", "Transport",
            "Phone & Internet", "Income", "Salary", "Side gig / Misc",
            "Subscriptions", "Eating Out", "Parking", "Shopping",
            "Entertainment", "Unknown"} |->
        CASE c \in {"Rent", "Rego", "Insurance", "Utilities", "Groceries",
                    "Transport", "Phone & Internet"} -> "Essential"
          [] c \in {"Income", "Salary", "Side gig / Misc"} -> "Income"
          [] OTHER -> "Lifestyle"]

\* RegExp /(A|B|...)/.test(value)
TestAny(value, keywords) == \E kw \in keywords : includes(value, kw)

\* Mutant: the test for Groceries stands before the test for Utilities
CategoryOfValue_GroceriesBeforeUtilities(value) ==
    IF TestAny(value, {"RENT", "REALESTATE", "REALTY"}) THEN "Rent"
    ELSE IF TestAny(value, {"REGISTRATION", " REGO", "TRANSPORT DEPT"}) THEN "Rego"
    ELSE IF TestAny(value, {"INSURANCE", "NRMA", "AAMI", "ALLIANZ"}) THEN "Insurance"
    ELSE IF TestAny(value, {"COLES", "WOOLWORTHS", "ALDI", "IGA", "GROCER"})
        THEN "Groceries"
    ELSE IF TestAny(value, {"ENERGY", "POWER", "AGL", "ELECTRICITY", "WATER", "GAS"})
        THEN "Utilities"
    ELSE IF TestAny(value, {"OPTUS", "TELSTRA", "VODAFONE", "AMAYSIM"})
        THEN "Phone & Internet"
    ELSE IF TestAny(value, {"UBER", "TRANSLINK", "GO CARD"}) THEN "Transport"
    ELSE IF TestAny(value, {"MCDONALDS", "SUSHI", "CAFE", "BUTCHER"}) THEN "Eating Out"
    ELSE IF TestAny(value, {"NETFLIX", "SPOTIFY", "APPLECOMBILL", "CHATGPT", "AMZNPRIME"})
        THEN "Subscriptions"
    ELSE IF TestAny(value, {"PARKING", "WESTFIELD", "SHOPPING"}) THEN "Parking"
    ELSE "Unknown"

\* The chain of tests of inferCategory on value = merchant.toUpperCase()
CategoryOfValue(value) ==
    IF TestAny(value, {"RENT", "REALESTATE", "REALTY"}) THEN "Rent"
    ELSE IF TestAny(value, {"REGISTRATION", " REGO", "TRANSPORT DEPT"}) THEN "Rego"
    ELSE IF TestAny(value, {"INSURANCE", "NRMA", "AAMI", "ALLIANZ"}) THEN "Insurance"
    ELSE IF TestAny(value, {"ENERGY", "POWER", "AGL", "ELECTRICITY", "WATER", "GAS"})
        THEN "Utilities"
    ELSE IF TestAny(value, {"OPTUS", "TELSTRA", "VODAFONE", "AMAYSIM"})
        THEN "Phone & Internet"
    ELSE IF TestAny(value, {"UBER", "TRANSLINK", "GO CARD"}) THEN "Transport"
    ELSE IF TestAny(value, {"COLES", "WOOLWORTHS", "ALDI", "IGA", "GROCER"})
        THEN "Groceries"
    ELSE IF TestAny(value, {"MCDONALDS", "SUSHI", "CAFE", "BUTCHER"}) THEN "Eating Out"
    ELSE IF TestAny(value, {"NETFLIX", "SPOTIFY", "APPLECOMBILL", "CHATGPT", "AMZNPRIME"})
        THEN "Subscriptions"
    ELSE IF TestAny(value, {"PARKING", "WESTFIELD", "SHOPPING"}) THEN "Parking"
    ELSE "Unknown"

inferCategory(merchant) == CategoryOfValue(toUpperCase(merchant))

\* Mutant: subscriptions filed under a third macro-category
getMacroCategory_SubscriptionsAsIncome(category) ==
    IF category = "Subscriptions" THEN "Income"
    ELSE IF category \in DOMAIN MACRO_CATEGORY_MAP THEN MACRO_CATEGORY_MAP[category]
    ELSE "Lifestyle"

getMacroCategory(category) ==
    IF category \in DOMAIN MACRO_CATEGORY_MAP THEN MACRO_CATEGORY_MAP[category]
    ELSE "Lifestyle"

isInternalTransfer(merchant) == includes(merchant, "TRANSFER")

\* s.replace(/[^A-Z0-9 ]+/g, '')
RECURSIVE StripNonAlnumSpace(_)
StripNonAlnumSpace(s) ==
    IF s = "" THEN ""
    ELSE (IF IsIn(Head(s), UpperChars) \/ IsIn(Head(s), DigitChars) \/ Head(s) = " "
          THEN Head(s) ELSE "") \o StripNonAlnumSpace(Tail(s))

\* s.replace(/\s+/g, ' ')
RECURSIVE CollapseSpaces(_)
CollapseSpaces(s) ==
    IF s = "" THEN ""
    ELSE IF IsSpace(Head(s))
        THEN " " \o CollapseSpaces(trimStart(s))
        ELSE Head(s) \o CollapseSpaces(Tail(s))

\* Mutant: no fallback when nothing is left of the name
OrUnknown_KeepingEmpty(normalised) == normalised

\* normalised || 'UNKNOWN'
OrUnknown(normalised) == IF normalised = "" THEN "UNKNOWN" ELSE normalised

normaliseMerchant(value) ==
    IF value = "" THEN "UNKNOWN"
    ELSE OrUnknown(trim(CollapseSpaces(StripNonAlnumSpace(toUpperCase(value)))))

-----------------------------------------------------------------------------
(* Sequences *)

Front(seq) == SubSeq(seq, 1, Len(seq) - 1)

Last(seq) == seq[Len(seq)]

RECURSIVE SumSeq(_)
SumSeq(seq) == IF seq = <<>> THEN 0 ELSE SumSeq(Front(seq)) + Last(seq)

\* Position of the entry of an insertion-ordered Map stored under key, 0 when absent
MapIndex(map, key) ==
    IF \E i \in 1..Len(map) : map[i].key = key
    THEN CHOOSE i \in 1..Len(map) : map[i].key = key
    ELSE 0

\* Array.prototype.sort with comparator (a, b) => b.estimatedMonthlyCost - a.estimatedMonthlyCost:
\* stable, descending
RECURSIVE InsertByCostDesc(_, _)
InsertByCostDesc(sorted, e) ==
    IF sorted = <<>> THEN <<e>>
    ELSE IF FracLess(Last(sorted).estimatedMonthlyCost, e.estimatedMonthlyCost)
        THEN Append(InsertByCostDesc(Front(sorted), e), Last(sorted))
        ELSE Append(sorted, e)

RECURSIVE SortByCostDesc(_)
SortByCostDesc(seq) ==
    IF seq = <<>> THEN <<>> ELSE InsertByCostDesc(SortByCostDesc(Front(seq)), Last(seq))

\* Array.prototype.sort() of a set of strings: ascending by code units
RECURSIVE SortStrings(_)
SortStrings(S) ==
    IF S = {} THEN <<>>
    ELSE LET least == CHOOSE x \in S : \A y \in S \ {x} : StrLess(x, y)
         IN <<least>> \o SortStrings(S \ {least})

-----------------------------------------------------------------------------
(* CSV Tokenizer *)

Quote == "\""

\* Mutant: a comma ends the cell inside quotes as well
CsvStep_SplittingInsideQuotes(text, st) ==
    LET char == CharAt(text, st.i)
        next == IF st.i < Len(text) THEN CharAt(text, st.i + 1) ELSE ""
    IN IF char = Quote
       THEN IF st.inQuotes /\ next = Quote
            THEN [st EXCEPT !.current = @ \o Quote, !.i = @ + 2]
            ELSE [st EXCEPT !.inQuotes = ~@, !.i = @ + 1]
       ELSE IF char = ","
       THEN [st EXCEPT !.currentRow = Append(@, st.current), !.current = "", !.i = @ + 1]
       ELSE IF (char = "\n" \/ char = "\r") /\ ~st.inQuotes
       THEN [st EXCEPT !.rows = Append(@, Append(st.currentRow, st.current)),
                       !.currentRow = <<>>,
                       !.current = "",
                       !.i = IF char = "\r" /\ next = "\n" THEN @ + 2 ELSE @ + 1]
       ELSE [st EXCEPT !.current = @ \o char, !.i = @ + 1]

\* One pass of the for loop of parseCsv: the character at index i (1-based) is
\* handled and i moves on
CsvStep(text, st) ==
    LET char == CharAt(text, st.i)
        next == IF st.i < Len(text) THEN CharAt(text, st.i + 1) ELSE ""
    IN IF char = Quote
       THEN IF st.inQuotes /\ next = Quote
            THEN [st EXCEPT !.current = @ \o Quote, !.i = @ + 2]
            ELSE [st EXCEPT !.inQuotes = ~@, !.i = @ + 1]
       ELSE IF char = "," /\ ~st.inQuotes
       THEN [st EXCEPT !.currentRow = Append(@, st.current), !.current = "", !.i = @ + 1]
       ELSE IF (char = "\n" \/ char = "\r") /\ ~st.inQuotes
       THEN [st EXCEPT !.rows = Append(@, Append(st.currentRow, st.current)),
                       !.currentRow = <<>>,
                       !.current = "",
                       !.i = IF char = "\r" /\ next = "\n" THEN @ + 2 ELSE @ + 1]
       ELSE [st EXCEPT !.current = @ \o char, !.i = @ + 1]

\* The passes of the loop up to index stop
RECURSIVE CsvRun(_, _, _)
CsvRun(text, st, stop) ==
    IF st.i > Len(text) \/ st.i > stop THEN st ELSE CsvRun(text, CsvStep(text, st), stop)

\* The whole loop, run in blocks of passes to keep the evaluation shallow
RECURSIVE CsvLoop(_, _)
CsvLoop(text, st) ==
    IF st.i > Len(text) THEN st ELSE CsvLoop(text, CsvRun(text, st, st.i + 15))

\* The last row is pushed unless it is a single empty cell
PushLastRow(rows, row) ==
    IF Len(row) > 1 \/ (Len(row) = 1 /\ row[1] # "") THEN Append(rows, row) ELSE rows

\* After the loop: pushCell(), pushRow(), then the rows with a non-blank cell
CsvTail(scanned) ==
    LET NotBlank(row) == \E c \in 1..Len(row) : Len(trim(row[c])) > 0
    IN SelectSeq(PushLastRow(scanned.rows, Append(scanned.currentRow, scanned.current)), NotBlank)

parseCsv(text) ==
    CsvTail(CsvLoop(text, [rows |-> <<>>, currentRow |-> <<>>, current |-> "",
                           inQuotes |-> FALSE, i |-> 1]))

-----------------------------------------------------------------------------
(* Record Builder *)

\* A Record is the sequence of its [key, value] properties in insertion order;
\* assigning to a key that is present overwrites its value in place.
\* (No header of the catalogue is an integer-like key, which Object.keys would
\* list first.)
RecordSet(record, key, value) ==
    IF MapIndex(record, key) = 0
    THEN Append(record, [key |-> key, value |-> value])
    ELSE [record EXCEPT ![MapIndex(record, key)].value = value]

RecordGet(record, key) == record[MapIndex(record, key)].value

RecordKeys(record) == [i \in 1..Len(record) |-> record[i].key]

\* header.forEach((col, index) => record[col || `column_${index}`] = row[index] ?? '')
RECURSIVE RecordOf(_, _, _)
RecordOf(header, row, n) ==
    IF n = 0 THEN <<>>
    ELSE RecordSet(RecordOf(header, row, n - 1),
                   IF header[n] # "" THEN header[n] ELSE "column_" \o IntToString(n - 1),
                   IF n <= Len(row) THEN row[n] ELSE "")

\* dataRows.map(row => record built from header)
RecordsOf(header, rows) ==
    [r \in 1..(Len(rows) - 1) |-> RecordOf(header, rows[r + 1], Len(header))]

rowsToRecords(rows) ==
    IF Len(rows) = 0 THEN <<>>
    ELSE RecordsOf([c \in 1..Len(rows[1]) |-> trim(rows[1][c])], rows)

-----------------------------------------------------------------------------
(* Column Inference and Transaction Standardizer *)

\* recordKeys.find(key => keywords.some(kw => key.toLowerCase().includes(kw))):
\* <<>> when no key matches, else <<the first matching key>>
detectColumn(recordKeys, keywords) ==
    LET Matches(key) == \E kw \in keywords : includes(toLowerCase(key), kw)
        found == SelectSeq(recordKeys, Matches)
    IN IF found = <<>> THEN <<>> ELSE <<found[1]>>

IsDigit(c) == IsIn(c, DigitChars)

RECURSIVE DigitsValue(_)
DigitsValue(s) ==
    IF s = "" THEN 0
    ELSE DigitsValue(SubSeq(s, 1, Len(s) - 1)) * 10 + (IndexIn(CharAt(s, Len(s)), DigitChars) - 1)

\* The longest prefix of s made of digits
RECURSIVE DigitPrefix(_)
DigitPrefix(s) ==
    IF s # "" /\ IsDigit(Head(s)) THEN Head(s) \o DigitPrefix(Tail(s)) ELSE ""

\* str.replace(/[^\d.\-]/g, '')
RECURSIVE StripNonNumeric(_)
StripNonNumeric(s) ==
    IF s = "" THEN ""
    ELSE (IF IsDigit(Head(s)) \/ Head(s) \in {".", "-"} THEN Head(s) ELSE "")
         \o StripNonNumeric(Tail(s))

\* Number.parseFloat of a string of digits, dots and minus signs, in cents: <<>> for
\* NaN, else <<value>>.  It reads an optional sign, digits, an optional dot and
\* digits, at least one digit in all, and ignores what follows.  (The amounts of
\* the catalogue carry at most two decimals; further decimals would be fractions
\* of a cent.)
FloatOfParts(negative, whole, decimals) ==
    IF whole = "" /\ decimals = "" THEN <<>>
    ELSE IF negative
        THEN <<-(DigitsValue(whole) * 100 + DigitsValue(SubSeq(decimals \o "00", 1, 2)))>>
        ELSE <<DigitsValue(whole) * 100 + DigitsValue(SubSeq(decimals \o "00", 1, 2))>>

\* The digits that follow a dot at the head of rest
DecimalsOf(rest) == IF rest # "" /\ Head(rest) = "." THEN DigitPrefix(Tail(rest)) ELSE ""

FloatOfBody(negative, body, whole) ==
    FloatOfParts(negative, whole, DecimalsOf(SubSeq(body, Len(whole) + 1, Len(body))))

FloatOfUnsigned(negative, body) == FloatOfBody(negative, body, DigitPrefix(body))

parseFloatCents(str) ==
    IF str # "" /\ Head(str) = "-" THEN FloatOfUnsigned(TRUE, Tail(str))
    ELSE FloatOfUnsigned(FALSE, str)

\* Number.isNaN(numeric) ? 0 : negative ? -Math.abs(numeric) : numeric
SignedMoney(negative, numeric) ==
    IF numeric = <<>> THEN 0
    ELSE IF negative THEN -Abs(numeric[1]) ELSE numeric[1]

\* cleanMoneyValue on str = String(value).trim()
CleanTrimmed(str) ==
    IF str = "" THEN 0
    ELSE SignedMoney(includes(str, "(") /\ includes(str, ")"),
                     parseFloatCents(StripNonNumeric(str)))

cleanMoneyValue(value) == CleanTrimmed(trim(value))

\* A Date is [year, month (1..12), day]: its local calendar fields
Date(y, m, d) == [year |-> y, month |-> m, day |-> d]

IsLeapYear(y) == (y % 4 = 0 /\ y % 100 # 0) \/ y % 400 = 0

DaysInMonth(y, m) ==
    IF m = 2 THEN (IF IsLeapYear(y) THEN 29 ELSE 28)
    ELSE IF m \in {4, 6, 9, 11} THEN 30 ELSE 31

\* Carries a day outside the month into the neighbouring months
RECURSIVE CarryDay(_, _, _)
CarryDay(y, m, d) ==
    IF d < 1
    THEN LET py == IF m = 1 THEN y - 1 ELSE y
             pm == IF m = 1 THEN 12 ELSE m - 1
         IN CarryDay(py, pm, d + DaysInMonth(py, pm))
    ELSE IF d > DaysInMonth(y, m)
    THEN CarryDay(IF m = 12 THEN y + 1 ELSE y, IF m = 12 THEN 1 ELSE m + 1,
                  d - DaysInMonth(y, m))
    ELSE Date(y, m, d)

\* new Date(year, monthIndex, day), year >= 100: fields out of range carry over
NewDate(year, monthIndex, day) ==
    CarryDay(year + (monthIndex \div 12), (monthIndex % 12) + 1, day)

IsSeparator(c) == c \in {"/", "-"}

\* trimmed.match(/^(\d{1,2})[\/\-](\d{1,2})[\/\-](\d{2,4})$/): <<>> or <<part1, part2, part3>>
MatchParts(trimmed, part1, rest1, part2, part3) ==
    IF /\ Len(part1) \in 1..2
       /\ Len(trimmed) > Len(part1) /\ IsSeparator(CharAt(trimmed, Len(part1) + 1))
       /\ Len(part2) \in 1..2
       /\ Len(rest1) > Len(part2) /\ IsSeparator(CharAt(rest1, Len(part2) + 1))
       /\ Len(part3) \in 2..4 /\ DigitPrefix(part3) = part3
    THEN <<part1, part2, part3>>
    ELSE <<>>

MatchSecond(trimmed, part1, rest1, part2) ==
    MatchParts(trimmed, part1, rest1, part2, SubSeq(rest1, Len(part2) + 2, Len(rest1)))

MatchFirst(trimmed, part1, rest1) == MatchSecond(trimmed, part1, rest1, DigitPrefix(rest1))

MatchFrom(trimmed, part1) ==
    MatchFirst(trimmed, part1, SubSeq(trimmed, Len(part1) + 2, Len(trimmed)))

slashMatch(trimmed) == MatchFrom(trimmed, DigitPrefix(trimmed))

AllDigits(s) == s # "" /\ DigitPrefix(s) = s

\* new Date(trimmed) for a string the numeric pattern does not match: <<>> for an
\* Invalid Date.  A date-only ISO string YYYY-MM-DD is midnight UTC, which the local
\* getters place on the day before when the host's zone is behind UTC; a string
\* without a digit is no date.  (The cells of the catalogue that come here are of
\* these two kinds; other strings are parsed as the engine sees fit.)
IsoDate(y, m, d) ==
    IF m \in 1..12 /\ d \in 1..DaysInMonth(y, m)
    THEN <<CarryDay(y, m, IF westOfUtc THEN d - 1 ELSE d)>>
    ELSE <<>>

\* Mutant: the Invalid Date of an unreadable string passed on as a date
DateFromString_NeverInvalid(trimmed) == <<CarryDay(1970, 1, 1)>>

DateFromString(trimmed) ==
    IF /\ Len(trimmed) = 10
       /\ AllDigits(SubSeq(trimmed, 1, 4)) /\ CharAt(trimmed, 5) = "-"
       /\ AllDigits(SubSeq(trimmed, 6, 7)) /\ CharAt(trimmed, 8) = "-"
       /\ AllDigits(SubSeq(trimmed, 9, 10))
    THEN IsoDate(DigitsValue(SubSeq(trimmed, 1, 4)), DigitsValue(SubSeq(trimmed, 6, 7)),
                 DigitsValue(SubSeq(trimmed, 9, 10)))
    ELSE <<>>

\* <<>> for null, else <<Date>>
\* The numeric branch of parseDate: part1, part2 and year are the parsed groups
DateOfParts(part1, part2, year) ==
    LET dayFirst == part1 > 12
        day == IF dayFirst THEN part1 ELSE part2
        month == IF dayFirst THEN part2 ELSE part1
        normalizedYear == IF year < 100 THEN 2000 + year ELSE year
    IN <<NewDate(normalizedYear, month - 1, day)>>

DateOfMatch(trimmed, match) ==
    IF match # <<>>
    THEN DateOfParts(DigitsValue(match[1]), DigitsValue(match[2]), DigitsValue(match[3]))
    ELSE DateFromString(trimmed)

DateOfTrimmed(trimmed) ==
    IF trimmed = "" THEN <<>> ELSE DateOfMatch(trimmed, slashMatch(trimmed))

parseDate(value) == IF value = "" THEN <<>> ELSE DateOfTrimmed(trim(value))

Thrown(message) == [ok |-> FALSE, error |-> message, value |-> <<>>]

Returned(value) == [ok |-> TRUE, error |-> "", value |-> value]

\* Mutant: the indicator column is not looked at
ApplyIndicator_KeepingTheSign(parsed, indicatorCol, indicator) == parsed

\* if (indicator.includes('DR')) amount = -Math.abs(amount);
\* else if (indicator.includes('CR')) amount = Math.abs(amount);
ApplyIndicator(parsed, indicatorCol, indicator) ==
    IF indicatorCol # <<>> /\ includes(indicator, "DR") THEN -Abs(parsed)
    ELSE IF indicatorCol # <<>> /\ includes(indicator, "CR") THEN Abs(parsed)
    ELSE parsed

\* Mutant: the difference taken the other way round
NetOf_DebitMinusCredit(debit, credit) == Abs(debit) - credit

\* credit - Math.abs(debit)
NetOf(debit, credit) == credit - Abs(debit)

\* The amount of a row whose date parsed, some amount representation being present
AmountOfRow(row, amountCols, indicatorCol, debitCol, creditCol) ==
    IF Len(amountCols) > 0
    THEN ApplyIndicator(cleanMoneyValue(RecordGet(row, amountCols[1])), indicatorCol,
                        IF indicatorCol # <<>>
                        THEN toUpperCase(RecordGet(row, indicatorCol[1])) ELSE "")
    ELSE NetOf(IF debitCol # <<>> THEN cleanMoneyValue(RecordGet(row, debitCol[1])) ELSE 0,
               IF creditCol # <<>> THEN cleanMoneyValue(RecordGet(row, creditCol[1])) ELSE 0)

\* Mutant: a row whose date does not parse ends the run with an Error
StandardiseRow_RejectingUndated(sofar, row, parsedDate, sourceName, descCol, amountCols, indicatorCol, debitCol, creditCol) ==
    IF ~sofar.ok THEN sofar
    ELSE IF parsedDate = <<>>
        THEN Thrown("[" \o sourceName \o "] Could not parse date.")
    ELSE IF Len(amountCols) = 0 /\ debitCol = <<>> /\ creditCol = <<>>
        THEN Thrown("[" \o sourceName \o "] Could not determine amount columns.")
    ELSE Returned(Append(sofar.value,
                         [date |-> parsedDate[1],
                          description |-> RecordGet(row, descCol),
                          amount |-> AmountOfRow(row, amountCols, indicatorCol,
                                                 debitCol, creditCol)]))

\* The body of records.forEach for one row: sofar is the outcome of the rows before
\* it (an Error thrown by an earlier row ends the loop)
StandardiseRow(sofar, row, parsedDate, sourceName, descCol, amountCols, indicatorCol, debitCol, creditCol) ==
    IF ~sofar.ok THEN sofar
    ELSE IF parsedDate = <<>> THEN sofar
    ELSE IF Len(amountCols) = 0 /\ debitCol = <<>> /\ creditCol = <<>>
        THEN Thrown("[" \o sourceName \o "] Could not determine amount columns.")
    ELSE Returned(Append(sofar.value,
                         [date |-> parsedDate[1],
                          description |-> RecordGet(row, descCol),
                          amount |-> AmountOfRow(row, amountCols, indicatorCol,
                                                 debitCol, creditCol)]))

\* records.forEach(row => ...)
RECURSIVE StandardiseRows(_, _, _, _, _, _, _, _)
StandardiseRows(records, sourceName, dateCol, descCol, amountCols, indicatorCol, debitCol, creditCol) ==
    IF records = <<>> THEN Returned(<<>>)
    ELSE StandardiseRow(StandardiseRows(Front(records), sourceName, dateCol, descCol,
                                        amountCols, indicatorCol, debitCol, creditCol),
                        Last(records), parseDate(RecordGet(Last(records), dateCol)),
                        sourceName, descCol, amountCols, indicatorCol, debitCol, creditCol)

\* descCol: the keyword match, else the first column that is not the date column,
\* else the date column
DescriptionColumn(columns, dateCol, byKeyword, notDate) ==
    IF byKeyword # <<>> THEN byKeyword[1]
    ELSE IF notDate # <<>> THEN notDate[1]
    ELSE dateCol

\* Column inference once the date column is known, then the loop over the records
StandardiseWith(records, sourceName, columns, dateCol) ==
    LET NotDate(col) == col # dateCol
        IsAmount(col) == includes(toLowerCase(col), "amount")
    IN StandardiseRows(records, sourceName, dateCol,
            DescriptionColumn(columns, dateCol,
                detectColumn(columns, {"description", "details", "narration",
                                       "memo", "payee", "merchant", "reference"}),
                SelectSeq(columns, NotDate)),
            SelectSeq(columns, IsAmount),
            detectColumn(columns, {"dr/cr", "debit/credit", "credit/debit",
                                   "dc flag", "cr/dr"}),
            detectColumn(columns, {"debit", "withdrawal"}),
            detectColumn(columns, {"credit", "deposit"}))

StandardiseFrom(records, sourceName, columns, dateCol) ==
    IF dateCol = <<>>
    THEN Thrown("[" \o sourceName \o "] Could not determine date column.")
    ELSE StandardiseWith(records, sourceName, columns, dateCol[1])

StandardiseColumns(records, sourceName, columns) ==
    StandardiseFrom(records, sourceName, columns, detectColumn(columns, {"date"}))

standardiseRecords(records, sourceName) ==
    IF Len(records) = 0 THEN Returned(<<>>)
    ELSE StandardiseColumns(records, sourceName, RecordKeys(records[1]))

-----------------------------------------------------------------------------
(* Transaction Deriver *)

\* `${date.getFullYear()}-${String(date.getMonth() + 1).padStart(2, '0')}`
MonthKeyOf(date) == IntToString(date.year) \o "-" \o padStart2(IntToString(date.month))

\* !Number.isNaN(amount) && Number.isFinite(amount)
IsFiniteNumber(amount) == amount \in Int

Derived(tx, merchantNorm) ==
    [date |-> tx.date,
     description |-> tx.description,
     amount |-> tx.amount,
     monthKey |-> MonthKeyOf(tx.date),
     isInflow |-> tx.amount > 0,
     isOutflow |-> tx.amount < 0,
     absAmount |-> Abs(tx.amount),
     merchantNorm |-> merchantNorm,
     day |-> tx.date.day,
     isInternal |-> isInternalTransfer(merchantNorm)]

DeriveOne(tx) == Derived(tx, normaliseMerchant(tx.description))

deriveTransactions(transactions) ==
    LET mapped == [i \in 1..Len(transactions) |-> DeriveOne(transactions[i])]
        Keep(tx) == IsFiniteNumber(tx.amount)
    IN SelectSeq(mapped, Keep)

-----------------------------------------------------------------------------
(* Aggregators *)

\* new Set([...(monthCount ? Array.from(Array(monthCount).keys()) : []), monthKey]).size
\* The set holds the numbers 0 .. monthCount-1 and the string monthKey.
MonthSetSize(monthCount, monthKey) ==
    Cardinality((IF monthCount # 0 THEN {<<"number", i>> : i \in 0..(monthCount - 1)} ELSE {})
                \cup {<<"string", monthKey>>})

\* Mutant: the filter of the spend passes without the internal-transfer test
IsSpend_CountingTransfers(tx) == tx.isOutflow

\* tx.isOutflow && !tx.isInternal
IsSpend(tx) == tx.isOutflow /\ ~tx.isInternal

\* tx.isInflow && !tx.isInternal
IsIncome(tx) == tx.isInflow /\ ~tx.isInternal

\* Number.parseFloat(absAmount.toFixed(AMOUNT_ROUND_DECIMALS)): cents to whole units,
\* a half rounding up
RoundedAmount(absAmount) == (absAmount + 50) \div 100

BucketKey(tx) == tx.merchantNorm \o "|" \o IntToString(RoundedAmount(tx.absAmount))

\* if (!map.has(key)) map.set(key, fresh)
MapEnsure(map, key, fresh) == IF MapIndex(map, key) = 0 THEN Append(map, fresh) ELSE map

\* The entry a new bucket starts from
RecurringFresh(tx, bucketKey, category) ==
    [key |-> bucketKey,
     name |-> tx.merchantNorm,
     averageAmount |-> 0,
     category |-> category,
     macroCategory |-> getMacroCategory(category),
     transactionCount |-> 0,
     monthCount |-> 0,
     estimatedMonthlyCost |-> 0]

\* entry.transactionCount += 1; entry.averageAmount += tx.absAmount; entry.monthCount = ...
RecurringUpdate(map, i, tx) ==
    [map EXCEPT ![i].transactionCount = @ + 1,
                ![i].averageAmount = @ + tx.absAmount,
                ![i].monthCount = MonthSetSize(@, tx.monthKey)]

RecurringUpdateAt(map, bucketKey, tx) == RecurringUpdate(map, MapIndex(map, bucketKey), tx)

RecurringPut(map, tx, bucketKey) ==
    RecurringUpdateAt(MapEnsure(map, bucketKey,
                                RecurringFresh(tx, bucketKey, inferCategory(tx.merchantNorm))),
                      bucketKey, tx)

\* The forEach of summarizeRecurringExpenses; averageAmount holds the running sum
RECURSIVE RecurringMap(_)
RecurringMap(outflows) ==
    IF outflows = <<>> THEN <<>>
    ELSE RecurringPut(RecurringMap(Front(outflows)), Last(outflows), BucketKey(Last(outflows)))

RecurringResult(e, averageAmount) ==
    [name |-> e.name,
     averageAmount |-> averageAmount,
     category |-> e.category,
     macroCategory |-> e.macroCategory,
     transactionCount |-> e.transactionCount,
     monthCount |-> e.monthCount,
     estimatedMonthlyCost |-> averageAmount]

\* Mutant: the sum of the bucket reported as its average
RecurringEntry_SumAsAverage(e) == RecurringResult(e, FracOfInt(e.averageAmount))

RecurringEntry(e) ==
    RecurringResult(e, IF e.transactionCount > 0
                       THEN Frac(e.averageAmount, e.transactionCount)
                       ELSE FracOfInt(0))

\* Mutant: the threshold raised by a counter of the runs made so far
IsRecurring_CountingEarlierRuns(entry) ==
    /\ entry.transactionCount >= RECURRING_MIN_TX + Len(history)
    /\ entry.monthCount >= RECURRING_MIN_MONTHS

IsRecurring(entry) ==
    entry.transactionCount >= RECURRING_MIN_TX /\ entry.monthCount >= RECURRING_MIN_MONTHS

RecurringEntries(kept) == [i \in 1..Len(kept) |-> RecurringEntry(kept[i])]

summarizeRecurringExpenses(transactions) ==
    SortByCostDesc(RecurringEntries(
        SelectSeq(RecurringMap(SelectSeq(transactions, IsSpend)), IsRecurring)))

CategoryFresh(category) ==
    [key |-> category,
     category |-> category,
     macroCategory |-> getMacroCategory(category),
     totalSpend |-> 0,
     monthCount |-> 0]

\* entry.totalSpend += Math.abs(tx.amount); entry.monthCount = ...
CategoryUpdate(map, i, tx) ==
    [map EXCEPT ![i].totalSpend = @ + Abs(tx.amount),
                ![i].monthCount = MonthSetSize(@, tx.monthKey)]

CategoryPut(map, tx, category) ==
    CategoryUpdate(MapEnsure(map, category, CategoryFresh(category)),
                   MapIndex(MapEnsure(map, category, CategoryFresh(category)), category), tx)

RECURSIVE CategoryMap(_)
CategoryMap(outflows) ==
    IF outflows = <<>> THEN <<>>
    ELSE CategoryPut(CategoryMap(Front(outflows)), Last(outflows),
                     inferCategory(Last(outflows).merchantNorm))

\* monthCount ? totalSpend / monthCount : totalSpend
AverageOver(total, monthCount) ==
    IF monthCount # 0 THEN Frac(total, monthCount) ELSE FracOfInt(total)

CategoryEntries(map) ==
    [i \in 1..Len(map) |->
        [category |-> map[i].category,
         macroCategory |-> map[i].macroCategory,
         totalSpend |-> map[i].totalSpend,
         monthCount |-> map[i].monthCount,
         averageMonthlySpend |-> AverageOver(map[i].totalSpend, map[i].monthCount)]]

summarizeByCategory(transactions) ==
    CategoryEntries(CategoryMap(SelectSeq(transactions, IsSpend)))

MacroFresh(macroCategory) ==
    [key |-> macroCategory, macroCategory |-> macroCategory, totalSpend |-> 0, monthCount |-> 0]

\* Mutant: the macro-category keeps the spend of its last category only
MacroUpdate_KeepingLastCategory(map, i, category) ==
    [map EXCEPT ![i].totalSpend = category.totalSpend,
                ![i].monthCount = Max(@, category.monthCount)]

\* entry.totalSpend += category.totalSpend;
\* entry.monthCount = Math.max(entry.monthCount, category.monthCount)
MacroUpdate(map, i, category) ==
    [map EXCEPT ![i].totalSpend = @ + category.totalSpend,
                ![i].monthCount = Max(@, category.monthCount)]

MacroPut(map, category) ==
    MacroUpdate(MapEnsure(map, category.macroCategory, MacroFresh(category.macroCategory)),
                MapIndex(MapEnsure(map, category.macroCategory,
                                   MacroFresh(category.macroCategory)),
                         category.macroCategory),
                category)

RECURSIVE MacroMap(_)
MacroMap(categories) ==
    IF categories = <<>> THEN <<>>
    ELSE MacroPut(MacroMap(Front(categories)), Last(categories))

MacroEntries(map) ==
    [i \in 1..Len(map) |->
        [macroCategory |-> map[i].macroCategory,
         totalSpend |-> map[i].totalSpend,
         monthCount |-> map[i].monthCount,
         averageMonthlySpend |-> AverageOver(map[i].totalSpend, map[i].monthCount)]]

summarizeByMacroCategory(categories) == MacroEntries(MacroMap(categories))

IncomeFresh(tx, category) ==
    [key |-> tx.merchantNorm,
     name |-> tx.merchantNorm,
     totalAmount |-> 0,
     transactionCount |-> 0,
     monthCount |-> 0,
     type |-> IF category = "Unknown" THEN "Income" ELSE category,
     macroCategory |-> getMacroCategory(category)]

\* entry.totalAmount += tx.amount; entry.transactionCount += 1; entry.monthCount = ...
IncomeUpdate(map, i, tx) ==
    [map EXCEPT ![i].totalAmount = @ + tx.amount,
                ![i].transactionCount = @ + 1,
                ![i].monthCount = MonthSetSize(@, tx.monthKey)]

IncomeUpdateAt(map, tx) == IncomeUpdate(map, MapIndex(map, tx.merchantNorm), tx)

IncomePut(map, tx) ==
    IncomeUpdateAt(MapEnsure(map, tx.merchantNorm,
                             IncomeFresh(tx, inferCategory(tx.merchantNorm))), tx)

RECURSIVE IncomeMap(_)
IncomeMap(inflows) ==
    IF inflows = <<>> THEN <<>>
    ELSE IncomePut(IncomeMap(Front(inflows)), Last(inflows))

IncomeEntries(map) ==
    [i \in 1..Len(map) |->
        [name |-> map[i].name,
         totalAmount |-> map[i].totalAmount,
         averageAmount |-> AverageOver(map[i].totalAmount, map[i].transactionCount),
         transactionCount |-> map[i].transactionCount,
         monthCount |-> map[i].monthCount,
         averageMonthlyAmount |-> AverageOver(map[i].totalAmount, map[i].monthCount),
         type |-> map[i].type,
         macroCategory |-> map[i].macroCategory]]

summarizeIncome(transactions) == IncomeEntries(IncomeMap(SelectSeq(transactions, IsIncome)))

MonthEntry(transactions, month) ==
    LET InMonth(tx) == tx.monthKey = month
        monthTx == SelectSeq(transactions, InMonth)
        inTx == SelectSeq(monthTx, IsIncome)
        outTx == SelectSeq(monthTx, IsSpend)
        totalInflow == SumSeq([i \in 1..Len(inTx) |-> inTx[i].amount])
        totalOutflow == SumSeq([i \in 1..Len(outTx) |-> outTx[i].absAmount])
    IN [month |-> month,
        totalInflow |-> totalInflow,
        totalOutflow |-> totalOutflow,
        savings |-> totalInflow - totalOutflow,
        transactionCount |-> Len(monthTx)]

\* The monthKeys in the order in which the transactions first show them
RECURSIVE FirstSeenMonths(_)
FirstSeenMonths(transactions) ==
    IF transactions = <<>> THEN <<>>
    ELSE LET before == FirstSeenMonths(Front(transactions))
             month == Last(transactions).monthKey
         IN IF \E i \in 1..Len(before) : before[i] = month THEN before
            ELSE Append(before, month)

\* Mutant: the months left in insertion order, the sort() forgotten
summarizeMonthly_Unsorted(transactions) ==
    LET months == FirstSeenMonths(transactions)
    IN [i \in 1..Len(months) |-> MonthEntry(transactions, months[i])]

summarizeMonthly(transactions) ==
    LET months == SortStrings({transactions[i].monthKey : i \in 1..Len(transactions)})
    IN [i \in 1..Len(months) |-> MonthEntry(transactions, months[i])]

\* Mutant: the slice taken from the cheap end of the sorted list
SliceTop_FromTheEnd(leakage) ==
    SubSeq(leakage, IF Len(leakage) < LEAKAGE_TOP_N THEN 1 ELSE Len(leakage) - LEAKAGE_TOP_N + 1,
           Len(leakage))

\* leakage.slice(0, LEAKAGE_TOP_N)
SliceTop(leakage) ==
    SubSeq(leakage, 1, IF Len(leakage) < LEAKAGE_TOP_N THEN Len(leakage) ELSE LEAKAGE_TOP_N)

summarizeLeakage(recurring) == SliceTop(SortByCostDesc(recurring))

\* Mutant: the means taken over the transactions instead of the months
LengthOrOne_CountingTransactions(breakdown) ==
    LET n == SumSeq([i \in 1..Len(breakdown) |-> breakdown[i].transactionCount])
    IN IF n # 0 THEN n ELSE 1

\* breakdown.length || 1
LengthOrOne(breakdown) == IF Len(breakdown) # 0 THEN Len(breakdown) ELSE 1

summarizeKpis(breakdown, recurring, incomeSources, macroSpend) ==
    LET totalTransactions == SumSeq([i \in 1..Len(breakdown) |-> breakdown[i].transactionCount])
        totalInflowTransactions ==
            SumSeq([i \in 1..Len(incomeSources) |-> incomeSources[i].transactionCount])
        IsEssential(r) == r.macroCategory = "Essential"
        IsLifestyle(r) == r.macroCategory = "Lifestyle"
    IN [monthsCovered |-> [i \in 1..Len(breakdown) |-> breakdown[i].month],
        monthlyAverageSpend |->
            Frac(SumSeq([i \in 1..Len(breakdown) |-> breakdown[i].totalOutflow]),
                 LengthOrOne(breakdown)),
        monthlyAverageSavings |->
            Frac(SumSeq([i \in 1..Len(breakdown) |-> breakdown[i].savings]),
                 LengthOrOne(breakdown)),
        totalTransactions |-> totalTransactions,
        totalInflowTransactions |-> totalInflowTransactions,
        totalOutflowTransactions |-> totalTransactions - totalInflowTransactions,
        totalAverageMonthlyIncome |->
            Frac(SumSeq([i \in 1..Len(breakdown) |-> breakdown[i].totalInflow]),
                 LengthOrOne(breakdown)),
        recurringEssential |-> SelectSeq(recurring, IsEssential),
        recurringLifestyle |-> SelectSeq(recurring, IsLifestyle),
        leakageHotspots |-> summarizeLeakage(recurring),
        expenseByMacro |-> macroSpend]

-----------------------------------------------------------------------------
(* analyzeBankStatements, from the standardised transactions on *)

NoAnalysis == [none |-> TRUE]

\* An optional string is <<>> (undefined) or <<s>>
Undefined == <<>>

\* employerHint: "" stands for a hint that is absent or empty (both falsy)
InferEmployer(income, employerHint, employmentType) ==
    IF employerHint # "" THEN <<employerHint>>
    ELSE IF includes(toLowerCase(employmentType), "full")
        THEN (IF \E i \in 1..Len(income) : income[i].type = "Income"
              THEN <<income[CHOOSE i \in 1..Len(income) :
                                /\ income[i].type = "Income"
                                /\ \A j \in 1..(i - 1) : income[j].type # "Income"].name>>
              ELSE Undefined)
        ELSE Undefined

\* The returned BankStatementAnalysis
AnalysisResult(recurring, categories, macroCategories, income, monthlyBreakdown, kpis, employerHint, employmentType) ==
    [recurringExpenses |-> recurring,
     monthlyBreakdown |-> monthlyBreakdown,
     incomeSources |-> income,
     expenseByCategory |-> categories,
     expenseByMacro |-> macroCategories,
     totalAverageMonthlyIncome |-> kpis.totalAverageMonthlyIncome,
     monthlyAverageSavings |-> kpis.monthlyAverageSavings,
     monthlyAverageSpend |-> kpis.monthlyAverageSpend,
     totalTransactions |-> kpis.totalTransactions,
     totalInflowTransactions |-> kpis.totalInflowTransactions,
     totalOutflowTransactions |-> kpis.totalOutflowTransactions,
     recurringEssential |-> kpis.recurringEssential,
     recurringLifestyle |-> kpis.recurringLifestyle,
     leakageHotspots |-> kpis.leakageHotspots,
     monthsCovered |-> kpis.monthsCovered,
     startDate |-> IF monthlyBreakdown # <<>> THEN monthlyBreakdown[1].month ELSE "",
     endDate |-> IF monthlyBreakdown # <<>> THEN Last(monthlyBreakdown).month ELSE "",
     inference |-> [employer |-> InferEmployer(income, employerHint, employmentType),
                    employmentType |-> employmentType]]

AnalysisWithKpis(recurring, categories, macroCategories, income, monthlyBreakdown, employerHint, employmentType) ==
    AnalysisResult(recurring, categories, macroCategories, income, monthlyBreakdown,
                   summarizeKpis(monthlyBreakdown, recurring, income, macroCategories),
                   employerHint, employmentType)

AnalysisWithMacro(recurring, categories, income, monthlyBreakdown, employerHint, employmentType) ==
    AnalysisWithKpis(recurring, categories, summarizeByMacroCategory(categories), income,
                     monthlyBreakdown, employerHint, employmentType)

AnalysisOf(drv, employerHint, employmentType) ==
    AnalysisWithMacro(summarizeRecurringExpenses(drv), summarizeByCategory(drv),
                      summarizeIncome(drv), summarizeMonthly(drv),
                      employerHint, employmentType)

EmployerHints == {"", "ACME"}
EmploymentTypes == {"", "Full-time"}

-----------------------------------------------------------------------------
(* SpecAgg: the aggregation passes applied to lists of standardised         *)
(* transactions.  Every transaction of the catalogue is one that            *)
(* standardiseRecords produces from a CSV row.                              *)

Tx(date, description, amount) ==
    [date |-> date, description |-> description, amount |-> amount]

TxCatalogue ==
    { Tx(Date(2025, 1, 5), "Netflix.com", -1599),
      Tx(Date(2025, 1, 20), "Netflix.com", -1560),
      Tx(Date(2025, 2, 5), "Netflix.com", -1599),
      Tx(Date(2025, 1, 7), "COLES 123", -4000),
      Tx(Date(2025, 2, 1), "Rent", -4000),
      Tx(Date(2025, 1, 9), "Transfer to savings", -5000),
      Tx(Date(2025, 2, 9), "Transfer from savings", 5000),
      Tx(Date(2025, 1, 15), "ACME PAY", 5000),
      Tx(Date(2025, 1, 29), "ACME PAY", 5050),
      Tx(Date(2025, 2, 15), "ACME PAY", 5000),
      Tx(Date(999, 12, 1), "COLES 123", 0) }

InitAgg ==
    /\ files = <<>>
    /\ standardised = <<>>
    /\ pc = "idle"
    /\ derived = <<>>
    /\ analysis = NoAnalysis
    /\ error = ""
    /\ westOfUtc = FALSE
    /\ reads = <<>>
    /\ readOrder = <<>>
    /\ history = <<>>
    /\ recurringExpenses = <<>>
    /\ leakageHotspots = <<>>
    /\ NoCsv
    /\ NoAuth
    /\ NoClassified

AddTransaction ==
    /\ pc = "idle"
    /\ Len(standardised) < MaxTx
    /\ \E tx \in TxCatalogue : standardised' = Append(standardised, tx)
    /\ UNCHANGED <<files, pc, derived, analysis, error, westOfUtc>>
    /\ UNCHANGED <<readVars, runVars, leakVars, csvVars, authVars, classVars>>

Aggregate ==
    /\ pc = "idle"
    /\ derived' = deriveTransactions(standardised)
    /\ \E employerHint \in EmployerHints, employmentType \in EmploymentTypes :
            analysis' = AnalysisOf(derived', employerHint, employmentType)
    /\ pc' = "done"
    /\ UNCHANGED <<files, standardised, error, westOfUtc>>
    /\ UNCHANGED <<readVars, runVars, leakVars, csvVars, authVars, classVars>>

NextAgg == AddTransaction \/ Aggregate

SpecAgg == InitAgg /\ [][NextAgg]_vars

-----------------------------------------------------------------------------
(* Spec: analyzeBankStatements on batches of uploaded files.  A File is         *)
(* [name, text]; the caller uploads up to MaxFiles files of the catalogue, in   *)
(* any order, and runs the analysis once.                                       *)

File(name, text) == [name |-> name, text |-> text]

FileCatalogue ==
    { File("jan.csv", "Date,Description,Amount\n05/01/2025,Netflix.com,-15.99\n"),
      File("feb.csv", "Date,Description,Amount\r\n13/02/2025,Netflix.com,-15.99\r\n"
                      \o "n/a,Closing balance,100.00"),
      File("other-bank.csv", "Date,Amount,Description\n14/02/2025,-40.00,COLES 123"),
      File("no-date.csv", "Posted,Description,Amount\n15/02/2025,Rent,-400.00"),
      File("no-amount.csv", "Date,Description\n16/02/2025,Rent"),
      File("no-amount-footer.csv", "Date,Description\nn/a,Closing balance"),
      File("empty.csv", ""),
      File("header-only.csv", "Date,Description,Amount\n"),
      File("footer-only.csv", "Date,Description,Amount\nn/a,Closing balance,100.00"),
      File("netflix-jan.csv", "Date,Description,Amount\n15/01/2025,NETFLIX,-15.99"),
      File("netflix-feb.csv", "Date,Amount,Description\n15/02/2025,-15.99,NETFLIX"),
      File("mar.csv", "Date,Description,Amount\n2025-03-01,\"Transfer, to savings\",-50\n"
                      \o "20/03/2025,ACME PAY,\"1,000.00\"") }

SOURCE_NAME == "Uploaded CSVs"

\* reads.forEach((text) => allRows.push(...parseCsv(text)))
RECURSIVE AllRows(_)
AllRows(fileContents) ==
    IF fileContents = <<>> THEN <<>>
    ELSE AllRows(Front(fileContents)) \o parseCsv(Last(fileContents))

Init ==
    /\ files = <<>>
    /\ standardised = <<>>
    /\ pc = "idle"
    /\ derived = <<>>
    /\ analysis = NoAnalysis
    /\ error = ""
    /\ westOfUtc \in BOOLEAN
    /\ reads = <<>>
    /\ readOrder = <<>>
    /\ history = <<>>
    /\ recurringExpenses = <<>>
    /\ leakageHotspots = <<>>
    /\ NoCsv
    /\ NoAuth
    /\ NoClassified

AddFile ==
    /\ pc = "idle"
    /\ Len(files) < MaxFiles
    /\ \E file \in FileCatalogue : files' = Append(files, file)
    /\ UNCHANGED <<standardised, pc, derived, analysis, error, westOfUtc>>
    /\ UNCHANGED <<readVars, runVars, leakVars, csvVars, authVars, classVars>>

\* analyzeBankStatements from line 438 on, the texts of the files being read: it
\* resolves with the analysis or rejects with the Error that standardiseRecords threw
Settle(outcome, employerHint, employmentType) ==
    IF outcome.ok
    THEN /\ standardised' = outcome.value
         /\ derived' = deriveTransactions(outcome.value)
         /\ analysis' = AnalysisOf(derived', employerHint, employmentType)
         /\ pc' = "done"
         /\ error' = ""
    ELSE /\ pc' = "rejected"
         /\ error' = outcome.error
         /\ UNCHANGED <<standardised, derived, analysis>>

Resolve(texts, employerHint, employmentType) ==
    Settle(standardiseRecords(rowsToRecords(AllRows(texts)), SOURCE_NAME),
           employerHint, employmentType)

\* The texts of the files, in the caller's order
TextsOf(batch) == [i \in 1..Len(batch) |-> batch[i].text]

\* analyzeBankStatements(files, {employerHint, employmentType})
Analyze ==
    /\ pc = "idle"
    /\ \E employerHint \in EmployerHints, employmentType \in EmploymentTypes :
            Resolve(TextsOf(files), employerHint, employmentType)
    /\ UNCHANGED <<files, westOfUtc, readVars, runVars, leakVars, csvVars, authVars, classVars>>

Next == AddFile \/ Analyze

Spec == Init /\ [][Next]_vars

-----------------------------------------------------------------------------
(* Properties of the aggregation passes (SpecAgg) *)

-----------------------------------------------------------------------------
(* SpecLeakage: summarizeLeakage applied to lists of recurring expenses.  The list  *)
(* is one that summarizeRecurringExpenses returns: entries of distinct names, in   *)
(* descending order of estimatedMonthlyCost.                                       *)

RecurringCosts == {FracOfInt(1599), Frac(3199, 2), FracOfInt(4000)}

\* The n-th recurring expense of a list, a subscription of the given mean amount
Expense(n, cost) ==
    [name |-> "MERCHANT " \o NatToString(n),
     averageAmount |-> cost,
     category |-> "Subscriptions",
     macroCategory |-> getMacroCategory("Subscriptions"),
     transactionCount |-> RECURRING_MIN_TX,
     monthCount |-> RECURRING_MIN_MONTHS,
     estimatedMonthlyCost |-> cost]

InitLeakage ==
    /\ files = <<>>
    /\ standardised = <<>>
    /\ pc = "idle"
    /\ derived = <<>>
    /\ analysis = NoAnalysis
    /\ error = ""
    /\ westOfUtc = FALSE
    /\ reads = <<>>
    /\ readOrder = <<>>
    /\ history = <<>>
    /\ recurringExpenses = <<>>
    /\ leakageHotspots = <<>>
    /\ NoCsv
    /\ NoAuth
    /\ NoClassified

AddRecurring ==
    /\ pc = "idle"
    /\ Len(recurringExpenses) < MaxRecurring
    /\ \E cost \in RecurringCosts :
            /\ IF recurringExpenses = <<>> THEN TRUE
               ELSE ~FracLess(Last(recurringExpenses).estimatedMonthlyCost, cost)
            /\ recurringExpenses' = Append(recurringExpenses, Expense(Len(recurringExpenses) + 1, cost))
    /\ UNCHANGED <<files, standardised, pc, derived, analysis, error, westOfUtc>>
    /\ UNCHANGED <<readVars, runVars, leakageHotspots, csvVars, authVars, classVars>>

\* leakageHotspots: summarizeLeakage(recurringExpenses)
Leak ==
    /\ pc = "idle"
    /\ leakageHotspots' = summarizeLeakage(recurringExpenses)
    /\ pc' = "done"
    /\ UNCHANGED <<files, standardised, derived, analysis, error, westOfUtc>>
    /\ UNCHANGED <<readVars, runVars, recurringExpenses, csvVars, authVars, classVars>>

NextLeakage == AddRecurring \/ Leak

SpecLeakage == InitLeakage /\ [][NextLeakage]_vars

-----------------------------------------------------------------------------
(* SpecRuns: analyzeBankStatements called several times in one process, each call *)
(* with its own files and hints.  The history records what each call was given    *)
(* and how it settled.                                                            *)

FileNamed(name) == CHOOSE file \in FileCatalogue : file.name = name

RunBatches ==
    { <<FileNamed("jan.csv"), FileNamed("feb.csv")>>,
      <<FileNamed("mar.csv")>>,
      <<FileNamed("no-date.csv")>> }

RunHints == { <<"", "Full-time">>, <<"ACME", "">> }

InitRuns ==
    /\ files = <<>>
    /\ standardised = <<>>
    /\ pc = "idle"
    /\ derived = <<>>
    /\ analysis = NoAnalysis
    /\ error = ""
    /\ westOfUtc \in BOOLEAN
    /\ reads = <<>>
    /\ readOrder = <<>>
    /\ history = <<>>
    /\ recurringExpenses = <<>>
    /\ leakageHotspots = <<>>
    /\ NoCsv
    /\ NoAuth
    /\ NoClassified

\* One call of analyzeBankStatements(batch, {employerHint, employmentType}), from the
\* call to the settling of its promise
Run ==
    /\ Len(history) < MaxRuns
    /\ \E batch \in RunBatches, hints \in RunHints :
            /\ files' = batch
            /\ Resolve(TextsOf(batch), hints[1], hints[2])
            /\ history' = Append(history,
                    [files |-> batch,
                     employerHint |-> hints[1],
                     employmentType |-> hints[2],
                     resolved |-> pc' = "done",
                     analysis |-> IF pc' = "done" THEN analysis' ELSE NoAnalysis,
                     error |-> error'])
    /\ UNCHANGED <<westOfUtc, readVars, leakVars, csvVars, authVars, classVars>>

NextRuns == Run

SpecRuns == InitRuns /\ [][NextRuns]_vars

-----------------------------------------------------------------------------
(* SpecReads: one call of analyzeBankStatements with the reads of its files in   *)
(* flight.  files.map(file => file.text()) issues every read at once, the reads   *)
(* complete one by one in any order, and the code after the await runs when       *)
(* Promise.all has resolved.                                                      *)

ReadBatches ==
    { <<>>,
      <<FileNamed("jan.csv")>>,
      <<FileNamed("jan.csv"), FileNamed("feb.csv")>>,
      <<FileNamed("feb.csv"), FileNamed("jan.csv"), FileNamed("mar.csv")>>,
      <<FileNamed("mar.csv"), FileNamed("jan.csv"), FileNamed("netflix-feb.csv")>> }

\* Mutant: the texts gathered in the order in which the reads completed
PromiseAll_InCompletionOrder(results, completion) ==
    [k \in 1..Len(completion) |-> results[completion[k]][1]]

\* The value Promise.all resolves to: the results in the order of the promises
\* given to it, whatever the order of their completion
PromiseAll(results, completion) == [i \in 1..Len(results) |-> results[i][1]]

InitReads ==
    /\ files \in ReadBatches
    /\ standardised = <<>>
    /\ pc = "idle"
    /\ derived = <<>>
    /\ analysis = NoAnalysis
    /\ error = ""
    /\ westOfUtc \in BOOLEAN
    /\ reads = <<>>
    /\ readOrder = <<>>
    /\ history = <<>>
    /\ recurringExpenses = <<>>
    /\ leakageHotspots = <<>>
    /\ NoCsv
    /\ NoAuth
    /\ NoClassified

\* files.map((file) => file.text())
IssueReads ==
    /\ pc = "idle"
    /\ pc' = "reading"
    /\ reads' = [i \in 1..Len(files) |-> <<>>]
    /\ readOrder' = <<>>
    /\ UNCHANGED <<files, standardised, derived, analysis, error, westOfUtc>>
    /\ UNCHANGED <<runVars, leakVars, csvVars, authVars, classVars>>

\* The read of one file completes
CompleteRead ==
    /\ pc = "reading"
    /\ \E i \in 1..Len(files) :
            /\ reads[i] = <<>>
            /\ reads' = [reads EXCEPT ![i] = <<files[i].text>>]
            /\ readOrder' = Append(readOrder, i)
    /\ UNCHANGED <<files, standardised, pc, derived, analysis, error, westOfUtc>>
    /\ UNCHANGED <<runVars, leakVars, csvVars, authVars, classVars>>

\* Promise.all has resolved: the rest of analyzeBankStatements runs
Process ==
    /\ pc = "reading"
    /\ \A i \in 1..Len(files) : reads[i] # <<>>
    /\ \E hints \in RunHints : Resolve(PromiseAll(reads, readOrder), hints[1], hints[2])
    /\ UNCHANGED <<files, westOfUtc, readVars, runVars, leakVars, csvVars, authVars, classVars>>

NextReads == IssueReads \/ CompleteRead \/ Process

SpecReads == InitReads /\ [][NextReads]_vars

-----------------------------------------------------------------------------
(* SpecRow: analyzeBankStatements on one statement of two data rows.  The first   *)
(* row is put together from a date cell and from the cells of the amount columns; *)
(* the second row is a salary payment of 500.00 on 20 March 2025.                 *)

\* Date cells the numeric pattern matches, with its three groups as numbers
NumericDateCells ==
    { [text |-> "13/01/2025", a |-> 13, b |-> 1, y |-> 2025],
      [text |-> "03/04/2025", a |-> 3, b |-> 4, y |-> 2025],
      [text |-> "5-1-25", a |-> 5, b |-> 1, y |-> 25],
      [text |-> "12/01/999", a |-> 12, b |-> 1, y |-> 999],
      [text |-> "31/12/2024", a |-> 31, b |-> 12, y |-> 2024],
      [text |-> "25-12-24", a |-> 25, b |-> 12, y |-> 24] }

IsoDateCells == {"2025-03-01"}

\* Date cells that are empty or that no date format matches
UndatedCells == {"", "n/a"}

DateCells == {cell.text : cell \in NumericDateCells} \cup IsoDateCells \cup UndatedCells

\* The amount columns of a statement: their header cells, the cells of the first
\* row and of the second row, and what the cells of the first row say in cents
\* (parsable: every cell that is not empty is a number)
MoneyColumns ==
    { [header |-> "Amount", cells |-> "-15.99", tail |-> "500.00",
       parsable |-> TRUE, debit |-> 0, credit |-> 0, amount |-> -1599],
      [header |-> "Amount", cells |-> "(25.00)", tail |-> "500.00",
       parsable |-> TRUE, debit |-> 0, credit |-> 0, amount |-> -2500],
      [header |-> "Amount", cells |-> "abc", tail |-> "500.00",
       parsable |-> FALSE, debit |-> 0, credit |-> 0, amount |-> 0],
      [header |-> "Debit,Credit", cells |-> "50.00,", tail |-> ",500.00",
       parsable |-> TRUE, debit |-> 5000, credit |-> 0, amount |-> -5000],
      [header |-> "Debit,Credit", cells |-> ",50.00", tail |-> ",500.00",
       parsable |-> TRUE, debit |-> 0, credit |-> 5000, amount |-> 5000],
      [header |-> "Withdrawal,Deposit", cells |-> "-25.00,100.00", tail |-> ",500.00",
       parsable |-> TRUE, debit |-> -2500, credit |-> 10000, amount |-> 7500],
      [header |-> "Debit,Credit", cells |-> "abc,", tail |-> ",500.00",
       parsable |-> FALSE, debit |-> 0, credit |-> 0, amount |-> 0] }

Statement(dateCell, money) ==
    File("statement.csv",
         "Date,Description," \o money.header
         \o "\n" \o dateCell \o ",Rent," \o money.cells
         \o "\n20/03/2025,ACME PAY," \o money.tail)

InitRow ==
    /\ files = <<>>
    /\ standardised = <<>>
    /\ pc = "idle"
    /\ derived = <<>>
    /\ analysis = NoAnalysis
    /\ error = ""
    /\ westOfUtc \in BOOLEAN
    /\ reads = <<>>
    /\ readOrder = <<>>
    /\ history = <<>>
    /\ recurringExpenses = <<>>
    /\ leakageHotspots = <<>>
    /\ NoCsv
    /\ NoAuth
    /\ NoClassified

\* The caller picks the statement to upload
ChooseStatement ==
    /\ pc = "idle"
    /\ files = <<>>
    /\ \E dateCell \in DateCells, money \in MoneyColumns :
            files' = <<Statement(dateCell, money)>>
    /\ UNCHANGED <<standardised, pc, derived, analysis, error, westOfUtc>>
    /\ UNCHANGED <<readVars, runVars, leakVars, csvVars, authVars, classVars>>

NextRow == ChooseStatement \/ Analyze

SpecRow == InitRow /\ [][NextRow]_vars

-----------------------------------------------------------------------------
(* SpecCsv: parseCsv on one record written in standard CSV quoting.  The record *)
(* is put together field by field, written as one line and tokenized.           *)

\* Field contents: plain, with a comma, with a line break, with quotes, with all
\* of them, empty and blank
FieldCatalogue ==
    { "Rent",
      "Smith, John",
      "line one\nline two",
      "a\r\nb",
      "say \"hi\"",
      "\"x\", \"y\"\nz",
      "",
      " " }

\* A field as a CSV writer writes it: enclosed in double quotes, with every inner
\* quote doubled, when it holds a comma, a line break or a quote
RECURSIVE DoubleQuotes(_)
DoubleQuotes(field) ==
    IF field = "" THEN ""
    ELSE (IF CharAt(field, 1) = Quote THEN Quote \o Quote ELSE CharAt(field, 1))
         \o DoubleQuotes(SubSeq(field, 2, Len(field)))

WriteField(field) ==
    IF includes(field, ",") \/ includes(field, "\n") \/ includes(field, "\r")
       \/ includes(field, Quote)
    THEN Quote \o DoubleQuotes(field) \o Quote
    ELSE field

RECURSIVE WriteRecord(_)
WriteRecord(fields) ==
    IF Len(fields) = 1 THEN WriteField(fields[1])
    ELSE WriteRecord(SubSeq(fields, 1, Len(fields) - 1)) \o "," \o WriteField(fields[Len(fields)])

InitCsv ==
    /\ files = <<>>
    /\ standardised = <<>>
    /\ pc = "idle"
    /\ derived = <<>>
    /\ analysis = NoAnalysis
    /\ error = ""
    /\ westOfUtc = FALSE
    /\ reads = <<>>
    /\ readOrder = <<>>
    /\ history = <<>>
    /\ recurringExpenses = <<>>
    /\ leakageHotspots = <<>>
    /\ NoCsv
    /\ NoAuth
    /\ NoClassified

\* The writer adds a field to the record
AddField ==
    /\ pc = "idle"
    /\ Len(csvFields) < MaxFields
    /\ \E field \in FieldCatalogue : csvFields' = Append(csvFields, field)
    /\ UNCHANGED <<files, standardised, pc, derived, analysis, error, westOfUtc>>
    /\ UNCHANGED <<readVars, runVars, leakVars, csvRows, authVars, classVars>>

\* parseCsv(text) on the written record
Tokenize ==
    /\ pc = "idle"
    /\ csvFields # <<>>
    /\ csvRows' = parseCsv(WriteRecord(csvFields))
    /\ pc' = "done"
    /\ UNCHANGED <<files, standardised, derived, analysis, error, westOfUtc>>
    /\ UNCHANGED <<readVars, runVars, leakVars, csvFields, authVars, classVars>>

NextCsv == AddField \/ Tokenize

SpecCsv == InitCsv /\ [][NextCsv]_vars

-----------------------------------------------------------------------------
(* SpecColumns: analyzeBankStatements on one statement of one data row whose     *)
(* header is put together from column names, to exercise the column inference.   *)

\* Names of text columns: one for every keyword of the description column, and two
\* that hold none of the keywords
ColumnNames ==
    {"Description", "Details", "Narration", "Memo", "Payee", "Merchant", "Reference",
     "Notes", "Branch"}

\* What the data row holds under a text column
CellOf(column) == "paid " \o column

\* A statement with two text columns, the date column before or between them
DescriptionStatement(first, second, dateFirst) ==
    File("statement.csv",
         IF dateFirst
         THEN "Date," \o first \o "," \o second \o ",Amount"
              \o "\n13/01/2025," \o CellOf(first) \o "," \o CellOf(second) \o ",-15.99"
         ELSE first \o ",Date," \o second \o ",Amount"
              \o "\n" \o CellOf(first) \o ",13/01/2025," \o CellOf(second) \o ",-15.99")

\* Amount cells with what they say in cents, and indicator cells
AmountCells == {[text |-> "15.99", cents |-> 1599], [text |-> "-15.99", cents |-> -1599]}

IndicatorCells == {"DR", "CR", "dr", "Cr", "", "Debit"}

IndicatorNames == {"DR/CR", "Debit/Credit", "DC Flag"}

\* A statement with an amount column and an indicator column
IndicatorStatement(name, amountCell, indicator) ==
    File("statement.csv",
         "Date,Description,Amount," \o name
         \o "\n13/01/2025,Rent," \o amountCell.text \o "," \o indicator)

\* A statement with a debit and a credit column standing before an amount column
AmountAndDebitCreditStatement(amountCell) ==
    File("statement.csv",
         "Date,Description,Debit,Credit,Amount"
         \o "\n13/01/2025,Rent,50.00,20.00," \o amountCell.text)

\* The caller picks a statement that differs in its text columns
ChooseDescriptionColumns ==
    /\ pc = "idle"
    /\ files = <<>>
    /\ \E first \in ColumnNames, second \in ColumnNames, dateFirst \in BOOLEAN :
            /\ first # second
            /\ files' = <<DescriptionStatement(first, second, dateFirst)>>
    /\ UNCHANGED <<standardised, pc, derived, analysis, error, westOfUtc>>
    /\ UNCHANGED <<readVars, runVars, leakVars, csvVars, authVars, classVars>>

\* The caller picks a statement that differs in its amount representation
ChooseAmountColumns ==
    /\ pc = "idle"
    /\ files = <<>>
    /\ \E amountCell \in AmountCells :
            \/ files' = <<AmountAndDebitCreditStatement(amountCell)>>
            \/ \E name \in IndicatorNames, indicator \in IndicatorCells :
                    files' = <<IndicatorStatement(name, amountCell, indicator)>>
    /\ UNCHANGED <<standardised, pc, derived, analysis, error, westOfUtc>>
    /\ UNCHANGED <<readVars, runVars, leakVars, csvVars, authVars, classVars>>

NextColumns == ChooseDescriptionColumns \/ ChooseAmountColumns \/ Analyze

SpecColumns == InitRow /\ [][NextColumns]_vars

-----------------------------------------------------------------------------
(* SpecDerive: deriveTransactions and the aggregation passes on one standardised *)
(* transaction whose description and amount vary.                                *)

\* Descriptions as statements hold them: mixed case, punctuation, runs of white
\* space, a tab, nothing but punctuation, nothing at all
Descriptions ==
    { "Netflix.com",
      "  coles   123 ",
      "***",
      "",
      " ",
      "Transfer to savings",
      "TRANS-FER 42",
      "a\tb",
      "Cafe #42",
      "UNKNOWN",
      "O'Brien & Sons" }

\* Amounts in cents: an outflow, nothing, an inflow
DescribedAmounts == {-1599, 0, 5000}

\* The caller hands over one transaction
AddDescribed ==
    /\ pc = "idle"
    /\ standardised = <<>>
    /\ \E description \in Descriptions, amount \in DescribedAmounts :
            standardised' = <<Tx(Date(2025, 1, 5), description, amount)>>
    /\ UNCHANGED <<files, pc, derived, analysis, error, westOfUtc>>
    /\ UNCHANGED <<readVars, runVars, leakVars, csvVars, authVars, classVars>>

NextDerive == AddDescribed \/ Aggregate

SpecDerive == InitAgg /\ [][NextDerive]_vars

-----------------------------------------------------------------------------
(* SpecLedger: the aggregation passes on lists of up to MaxLedger transactions   *)
(* of three merchants, two of them of one macro-category, and an internal        *)
(* transfer.                                                                     *)

LedgerCatalogue ==
    { Tx(Date(2025, 1, 3), "Rent", -120000),
      Tx(Date(2025, 2, 5), "Netflix.com", -1599),
      Tx(Date(2025, 3, 5), "Netflix.com", -1620),
      Tx(Date(2025, 1, 7), "COLES 123", -4000),
      Tx(Date(2025, 1, 9), "Transfer to savings", -5000) }

\* The caller adds a transaction to the list
AddToLedger ==
    /\ pc = "idle"
    /\ Len(standardised) < MaxLedger
    /\ \E tx \in LedgerCatalogue : standardised' = Append(standardised, tx)
    /\ UNCHANGED <<files, pc, derived, analysis, error, westOfUtc>>
    /\ UNCHANGED <<readVars, runVars, leakVars, csvVars, authVars, classVars>>

NextLedger == AddToLedger \/ Aggregate

SpecLedger == InitAgg /\ [][NextLedger]_vars

-----------------------------------------------------------------------------
(* SpecClassify: inferCategory and getMacroCategory applied to merchant strings  *)
(* and to category names.                                                        *)

\* Words of merchant names: a keyword of every rule, and words that no rule knows
MerchantWords ==
    {"RENT", "REGO", "REGISTRATION", "NRMA", "GAS", "TELSTRA", "UBER", "ALDI",
     "CAFE", "netflix", "PARKING", "KMART", ""}

\* Merchant strings: one word, or two words with a space between them
Merchants == {first \o " " \o second : first \in MerchantWords, second \in MerchantWords}
             \cup MerchantWords

\* Category names handed to getMacroCategory: those of the table and two others
CategoryNames == DOMAIN MACRO_CATEGORY_MAP \cup {"Gifts", ""}

InitClassify ==
    /\ files = <<>>
    /\ standardised = <<>>
    /\ pc = "idle"
    /\ derived = <<>>
    /\ analysis = NoAnalysis
    /\ error = ""
    /\ westOfUtc = FALSE
    /\ reads = <<>>
    /\ readOrder = <<>>
    /\ history = <<>>
    /\ recurringExpenses = <<>>
    /\ leakageHotspots = <<>>
    /\ NoCsv
    /\ NoAuth
    /\ NoClassified

\* inferCategory(merchant), and the macro-category of what it returned
InferCategory ==
    /\ \E merchant \in Merchants :
            classified' = <<[call |-> "inferCategory",
                             merchant |-> merchant,
                             category |-> inferCategory(merchant),
                             macroCategory |-> getMacroCategory(inferCategory(merchant))]>>
    /\ UNCHANGED <<files, standardised, pc, derived, analysis, error, westOfUtc>>
    /\ UNCHANGED <<readVars, runVars, leakVars, csvVars, authVars>>

\* getMacroCategory(category)
GetMacroCategory ==
    /\ \E category \in CategoryNames :
            classified' = <<[call |-> "getMacroCategory",
                             merchant |-> "",
                             category |-> category,
                             macroCategory |-> getMacroCategory(category)]>>
    /\ UNCHANGED <<files, standardised, pc, derived, analysis, error, westOfUtc>>
    /\ UNCHANGED <<readVars, runVars, leakVars, csvVars, authVars>>

NextClassify == InferCategory \/ GetMacroCategory

SpecClassify == InitClassify /\ [][NextClassify]_vars

-----------------------------------------------------------------------------
(* SpecAuth: the account service (services/authService.ts) over the browser's    *)
(* two storages.  A storage holds, under each key, <<>> (no item) or <<value>>;  *)
(* the users are stored as the list of StoredUser records that JSON.parse gives  *)
(* back.  Of a StoredUser the id, the email and the passwordHash are kept.       *)

USERS_KEY == "homepath_users"
SESSION_KEY == "homepath_session"

\* The code of a letter or a digit
CharCode(c) ==
    IF IsIn(c, UpperChars) THEN 64 + IndexIn(c, UpperChars)
    ELSE IF IsIn(c, LowerChars) THEN 96 + IndexIn(c, LowerChars)
    ELSE 47 + IndexIn(c, DigitChars)

Base64Chars == "ABCDEFGHIJKLMNOPQRSTUVWXYZabcdefghijklmnopqrstuvwxyz0123456789+/"

Sextet(n) == CharAt(Base64Chars, n + 1)

\* The four characters of three bytes, the three characters of two, the two of one
Base64Of3(n) ==
    Sextet(n \div 262144) \o Sextet((n \div 4096) % 64) \o Sextet((n \div 64) % 64)
    \o Sextet(n % 64)

Base64Of2(n) == Sextet(n \div 1024) \o Sextet((n \div 16) % 64) \o Sextet((n % 16) * 4) \o "="

Base64Of1(n) == Sextet(n \div 4) \o Sextet((n % 4) * 16) \o "=="

\* window.btoa on a string of letters and digits (which
\* unescape(encodeURIComponent(s)) leaves as they are)
RECURSIVE btoa(_)
btoa(s) ==
    IF s = "" THEN ""
    ELSE IF Len(s) = 1 THEN Base64Of1(CharCode(CharAt(s, 1)))
    ELSE IF Len(s) = 2 THEN Base64Of2(CharCode(CharAt(s, 1)) * 256 + CharCode(CharAt(s, 2)))
    ELSE Base64Of3(CharCode(CharAt(s, 1)) * 65536 + CharCode(CharAt(s, 2)) * 256
                   + CharCode(CharAt(s, 3)))
         \o btoa(SubSeq(s, 4, Len(s)))

hashPassword(password) == IF ~window THEN password ELSE btoa(password)

verifyPassword(password, hash) == hashPassword(password) = hash

\* storage.getItem(USERS_KEY), parsed: the empty list when there is no item
readUsers ==
    IF ~window THEN <<>>
    ELSE IF localStorage[USERS_KEY] = <<>> THEN <<>>
    ELSE localStorage[USERS_KEY][1]

\* The user without the passwordHash
sanitizeUser(user) == [id |-> user.id, email |-> user.email]

\* The first item under SESSION_KEY of localStorage, then of sessionStorage
getSessionUserId ==
    IF ~window THEN <<>>
    ELSE IF localStorage[SESSION_KEY] # <<>> /\ localStorage[SESSION_KEY][1] # ""
        THEN localStorage[SESSION_KEY]
    ELSE IF sessionStorage[SESSION_KEY] # <<>> /\ sessionStorage[SESSION_KEY][1] # ""
        THEN sessionStorage[SESSION_KEY]
    ELSE <<>>

\* users.find(item => item.id === userId), sanitized; <<>> for null
UserWithId(users, userId) ==
    LET HasId(item) == item.id = userId
    IN IF SelectSeq(users, HasId) = <<>> THEN <<>>
       ELSE <<sanitizeUser(SelectSeq(users, HasId)[1])>>

getCurrentUser ==
    IF getSessionUserId = <<>> THEN <<>>
    ELSE UserWithId(readUsers, getSessionUserId[1])

\* users.find(item => item.email === email): <<>> when there is none
UserWithEmail(users, email) ==
    LET HasEmail(item) == item.email = email
    IN IF SelectSeq(users, HasEmail) = <<>> THEN <<>> ELSE <<SelectSeq(users, HasEmail)[1]>>

\* The id of a new user: no two users get the same
generateId(users) == "user_" \o NatToString(Len(users) + 1)

Emails == {"ann@x.io", " Ann@X.io ", "bob@x.io"}
Passwords == {"pw1", "hunter2"}

Call(op, ok, user) == [op |-> op, ok |-> ok, user |-> user, after |-> <<>>]

InitAuth ==
    /\ files = <<>>
    /\ standardised = <<>>
    /\ pc = "idle"
    /\ derived = <<>>
    /\ analysis = NoAnalysis
    /\ error = ""
    /\ westOfUtc = FALSE
    /\ reads = <<>>
    /\ readOrder = <<>>
    /\ history = <<>>
    /\ recurringExpenses = <<>>
    /\ leakageHotspots = <<>>
    /\ NoCsv
    /\ NoClassified
    /\ window \in BOOLEAN
    /\ localStorage = [key \in {USERS_KEY, SESSION_KEY} |-> <<>>]
    /\ sessionStorage = [key \in {SESSION_KEY} |-> <<>>]
    /\ lastCall = NoCall
    /\ currentUser = <<>>

\* registerUser once the email is known to be free: the user is stored and the
\* session is persisted with remember = true
StoreNewUser(newUser) ==
    /\ localStorage' = [localStorage EXCEPT ![USERS_KEY] = <<Append(readUsers, newUser)>>,
                                            ![SESSION_KEY] = <<newUser.id>>]
    /\ lastCall' = Call("registerUser", TRUE, <<sanitizeUser(newUser)>>)

RegisterAs(email, password) ==
    IF ~window \/ UserWithEmail(readUsers, email) # <<>>
    THEN lastCall' = Call("registerUser", FALSE, <<>>) /\ UNCHANGED localStorage
    ELSE StoreNewUser([id |-> generateId(readUsers), email |-> email,
                       passwordHash |-> hashPassword(password)])

RegisterUser ==
    /\ \E email \in Emails, password \in Passwords :
            RegisterAs(toLowerCase(trim(email)), password)
    /\ UNCHANGED <<files, standardised, pc, derived, analysis, error, westOfUtc>>
    /\ UNCHANGED <<readVars, runVars, leakVars, csvVars, classVars>>
    /\ UNCHANGED <<window, sessionStorage, currentUser>>

\* persistSession(userId, remember)
PersistSession(userId, remember) ==
    IF remember
    THEN /\ localStorage' = [localStorage EXCEPT ![SESSION_KEY] = <<userId>>]
         /\ UNCHANGED sessionStorage
    ELSE /\ sessionStorage' = [sessionStorage EXCEPT ![SESSION_KEY] = <<userId>>]
         /\ UNCHANGED localStorage

AuthenticateAs(found, password, remember) ==
    IF ~window \/ found = <<>>
    THEN lastCall' = Call("authenticateUser", FALSE, <<>>)
         /\ UNCHANGED <<localStorage, sessionStorage>>
    ELSE IF ~verifyPassword(password, found[1].passwordHash)
    THEN lastCall' = Call("authenticateUser", FALSE, <<>>)
         /\ UNCHANGED <<localStorage, sessionStorage>>
    ELSE /\ PersistSession(found[1].id, remember)
         /\ lastCall' = Call("authenticateUser", TRUE, <<sanitizeUser(found[1])>>)

AuthenticateUser ==
    /\ \E email \in Emails, password \in Passwords, remember \in BOOLEAN :
            AuthenticateAs(UserWithEmail(readUsers, toLowerCase(trim(email))),
                           password, remember)
    /\ UNCHANGED <<files, standardised, pc, derived, analysis, error, westOfUtc>>
    /\ UNCHANGED <<readVars, runVars, leakVars, csvVars, classVars>>
    /\ UNCHANGED <<window, currentUser>>

\* signOutUser: removeSession()
SignOutUser ==
    /\ IF window
       THEN /\ localStorage' = [localStorage EXCEPT ![SESSION_KEY] = <<>>]
            /\ sessionStorage' = [sessionStorage EXCEPT ![SESSION_KEY] = <<>>]
       ELSE UNCHANGED <<localStorage, sessionStorage>>
    /\ lastCall' = Call("signOutUser", TRUE, <<>>)
    /\ UNCHANGED <<files, standardised, pc, derived, analysis, error, westOfUtc>>
    /\ UNCHANGED <<readVars, runVars, leakVars, csvVars, classVars>>
    /\ UNCHANGED <<window, currentUser>>

\* getCurrentUser(), with the call it comes after
GetCurrentUser ==
    /\ lastCall.op # "getCurrentUser"
    /\ currentUser' = getCurrentUser
    /\ lastCall' = [op |-> "getCurrentUser", ok |-> TRUE, user |-> getCurrentUser,
                    after |-> <<[op |-> lastCall.op, ok |-> lastCall.ok,
                                 user |-> lastCall.user]>>]
    /\ UNCHANGED <<files, standardised, pc, derived, analysis, error, westOfUtc>>
    /\ UNCHANGED <<readVars, runVars, leakVars, csvVars, classVars>>
    /\ UNCHANGED <<window, localStorage, sessionStorage>>

NextAuth == RegisterUser \/ AuthenticateUser \/ SignOutUser \/ GetCurrentUser

SpecAuth == InitAuth /\ [][NextAuth]_vars

-----------------------------------------------------------------------------
(* Properties *)

Done == pc = "done"

\* What the claims mean by an internal transfer, an outflow and an inflow
ContainsTransfer(tx) == includes(tx.merchantNorm, "TRANSFER")

CountedSpend(tx) == tx.amount < 0 /\ ~ContainsTransfer(tx)

CountedIncome(tx) == tx.amount > 0 /\ ~ContainsTransfer(tx)

SumAbs(txs) == SumSeq([i \in 1..Len(txs) |-> Abs(txs[i].amount)])

SumAmount(txs) == SumSeq([i \in 1..Len(txs) |-> txs[i].amount])

MonthsOf(txs) == {txs[i].monthKey : i \in 1..Len(txs)}

\* The outflow non-internal transactions of the bucket (merchant, rounded amount)
BucketOf(merchant, rounded) ==
    LET InBucket(tx) == /\ CountedSpend(tx)
                        /\ tx.merchantNorm = merchant
                        /\ (Abs(tx.amount) + 50) \div 100 = rounded
    IN SelectSeq(derived, InBucket)

\* The entries of recurringExpenses that report the bucket: the mean of amounts that
\* all round to the same whole number rounds to that number
EntriesOfBucket(merchant, rounded) ==
    {i \in 1..Len(analysis.recurringExpenses) :
        LET e == analysis.recurringExpenses[i] IN
        /\ e.name = merchant
        /\ (rounded * 100 - 50) * e.averageAmount[2] <= e.averageAmount[1]
        /\ e.averageAmount[1] < (rounded * 100 + 50) * e.averageAmount[2]}

\* C1: a bucket of outflow non-internal transactions is in recurringExpenses if and
\* only if it holds at least 2 transactions that fall in at least 2 distinct months,
\* and the reported monthCount is the number of distinct months of the bucket.
C1_RecurringIffTwoDistinctMonths ==
    Done =>
        \A j \in 1..Len(derived) :
            CountedSpend(derived[j]) =>
                LET merchant == derived[j].merchantNorm
                    rounded == (Abs(derived[j].amount) + 50) \div 100
                    bucket == BucketOf(merchant, rounded)
                    months == MonthsOf(bucket)
                IN /\ (EntriesOfBucket(merchant, rounded) # {})
                        <=> (Len(bucket) >= 2 /\ Cardinality(months) >= 2)
                   /\ \A i \in EntriesOfBucket(merchant, rounded) :
                        analysis.recurringExpenses[i].monthCount = Cardinality(months)

\* C2: a transaction whose normalized merchant contains "TRANSFER" is counted in its
\* month's transactionCount and adds nothing to a month's totalInflow or
\* totalOutflow, to a category, macro-category or income-source summary, or to a
\* recurring-expense bucket.
C2_InternalTransfersOnlyCounted ==
    Done =>
        /\ \A j \in 1..Len(derived) :
             \E i \in 1..Len(analysis.monthlyBreakdown) :
                analysis.monthlyBreakdown[i].month = derived[j].monthKey
        /\ \A i \in 1..Len(analysis.monthlyBreakdown) :
             LET b == analysis.monthlyBreakdown[i]
                 InMonth(tx) == tx.monthKey = b.month
                 monthTx == SelectSeq(derived, InMonth)
             IN /\ b.transactionCount = Len(monthTx)
                /\ b.totalInflow = SumAmount(SelectSeq(monthTx, CountedIncome))
                /\ b.totalOutflow = SumAbs(SelectSeq(monthTx, CountedSpend))
        /\ \A i \in 1..Len(analysis.expenseByCategory) :
             LET c == analysis.expenseByCategory[i]
                 InCategory(tx) == CountedSpend(tx) /\ inferCategory(tx.merchantNorm) = c.category
             IN c.totalSpend = SumAbs(SelectSeq(derived, InCategory))
        /\ \A i \in 1..Len(analysis.expenseByMacro) :
             LET m == analysis.expenseByMacro[i]
                 InMacro(tx) ==
                    /\ CountedSpend(tx)
                    /\ getMacroCategory(inferCategory(tx.merchantNorm)) = m.macroCategory
             IN m.totalSpend = SumAbs(SelectSeq(derived, InMacro))
        /\ \A i \in 1..Len(analysis.incomeSources) :
             LET src == analysis.incomeSources[i]
                 FromSource(tx) == CountedIncome(tx) /\ tx.merchantNorm = src.name
             IN /\ ~includes(src.name, "TRANSFER")
                /\ src.totalAmount = SumAmount(SelectSeq(derived, FromSource))
                /\ src.transactionCount = Len(SelectSeq(derived, FromSource))
        /\ \A i \in 1..Len(analysis.recurringExpenses) :
             LET e == analysis.recurringExpenses[i]
             IN /\ ~includes(e.name, "TRANSFER")
                /\ \E j \in 1..Len(derived) :
                     LET rounded == (Abs(derived[j].amount) + 50) \div 100 IN
                     /\ CountedSpend(derived[j])
                     /\ i \in EntriesOfBucket(e.name, rounded)
                     /\ e.transactionCount = Len(BucketOf(e.name, rounded))
                     /\ e.averageAmount[1] * e.transactionCount
                            = SumAbs(BucketOf(e.name, rounded)) * e.averageAmount[2]

\* An internal outflow and an internal inflow were analysed beside a counted transaction
C2_Witness ==
    /\ Done
    /\ \E j, k, l \in 1..Len(derived) :
        /\ ContainsTransfer(derived[j]) /\ derived[j].amount < 0
        /\ ContainsTransfer(derived[k]) /\ derived[k].amount > 0
        /\ ~ContainsTransfer(derived[l]) /\ derived[l].amount # 0
        /\ derived[l].monthKey = derived[j].monthKey

-----------------------------------------------------------------------------
(* Properties of analyzeBankStatements on batches of files (Spec) *)

Finished == pc # "idle"

\* The file read alone: its rows, and what its own header row holds
RowsOfFile(file) == parseCsv(file.text)

HasDataRow(file) == Len(RowsOfFile(file)) >= 2

HeaderContains(file, keywords) ==
    \E c \in 1..Len(RowsOfFile(file)[1]) :
        \E kw \in keywords : includes(toLowerCase(trim(RowsOfFile(file)[1][c])), kw)

\* C3: if any file of the batch, the first or a later one, has at least one data row
\* and no header containing "date", analyzeBankStatements rejects with an error
\* naming that file and returns no analysis.
C3_MissingDateColumnRejectsNamingFile ==
    Finished =>
        \A i \in 1..Len(files) :
            (HasDataRow(files[i]) /\ ~HeaderContains(files[i], {"date"})) =>
                /\ pc = "rejected"
                /\ analysis = NoAnalysis
                /\ includes(error, "date column")
                /\ includes(error, files[i].name)

\* C4: a file that has at least one data row and a date column but no column
\* containing "amount" and no debit/withdrawal or credit/deposit column makes the
\* analysis abort with a missing-amount-column error, whether or not any row of the
\* file has a parsable date.
C4_MissingAmountColumnRejects ==
    Finished =>
        \A i \in 1..Len(files) :
            (/\ HasDataRow(files[i])
             /\ HeaderContains(files[i], {"date"})
             /\ ~HeaderContains(files[i], {"amount", "debit", "withdrawal", "credit", "deposit"}))
            => (pc = "rejected" /\ includes(error, "amount columns"))

\* The transactions of the files when each is read under its own header row
RECURSIVE OwnHeaderTransactions(_)
OwnHeaderTransactions(batch) ==
    IF batch = <<>> THEN <<>>
    ELSE OwnHeaderTransactions(Front(batch))
         \o standardiseRecords(rowsToRecords(RowsOfFile(Last(batch))), SOURCE_NAME).value

RECURSIVE DataRowCount(_)
DataRowCount(batch) ==
    IF batch = <<>> THEN 0
    ELSE DataRowCount(Front(batch))
         + (IF RowsOfFile(Last(batch)) = <<>> THEN 0 ELSE Len(RowsOfFile(Last(batch))) - 1)

\* C5: in a batch of several files the records of each file are keyed by that file's
\* own header row, so each file's date, description and amount are read from its own
\* columns, and no file's header row is turned into a data record.
C5_EachFileKeyedByOwnHeader ==
    (/\ Finished
     /\ \A i \in 1..Len(files) :
            standardiseRecords(rowsToRecords(RowsOfFile(files[i])), SOURCE_NAME).ok)
    => /\ pc = "done"
       /\ standardised = OwnHeaderTransactions(files)
       /\ Len(rowsToRecords(AllRows([i \in 1..Len(files) |-> files[i].text])))
            = DataRowCount(files)

\* C6: for every category in expenseByCategory, totalSpend is the sum of absolute
\* amounts of the outflow non-internal transactions of the category, monthCount is
\* the number of distinct months holding such a transaction, and
\* averageMonthlySpend = totalSpend / monthCount (totalSpend when monthCount is 0).
C6_CategoryMonthCountIsDistinctMonths ==
    Done =>
        \A i \in 1..Len(analysis.expenseByCategory) :
            LET c == analysis.expenseByCategory[i]
                InCategory(tx) == CountedSpend(tx) /\ inferCategory(tx.merchantNorm) = c.category
                txs == SelectSeq(derived, InCategory)
            IN /\ c.totalSpend = SumAbs(txs)
               /\ c.monthCount = Cardinality(MonthsOf(txs))
               /\ IF c.monthCount = 0
                  THEN c.averageMonthlySpend = <<c.totalSpend, 1>>
                  ELSE c.averageMonthlySpend[1] * c.monthCount
                            = c.totalSpend * c.averageMonthlySpend[2]

\* C7: for every macro-category in expenseByMacro, totalSpend is the sum of absolute
\* amounts of the outflow non-internal transactions whose category maps to it,
\* monthCount is the number of distinct months holding such a transaction, and
\* averageMonthlySpend = totalSpend / monthCount.
C7_MacroMonthCountIsDistinctMonths ==
    Done =>
        \A i \in 1..Len(analysis.expenseByMacro) :
            LET m == analysis.expenseByMacro[i]
                InMacro(tx) ==
                    /\ CountedSpend(tx)
                    /\ getMacroCategory(inferCategory(tx.merchantNorm)) = m.macroCategory
                txs == SelectSeq(derived, InMacro)
            IN /\ m.totalSpend = SumAbs(txs)
               /\ m.monthCount = Cardinality(MonthsOf(txs))
               /\ m.averageMonthlySpend[1] * m.monthCount
                        = m.totalSpend * m.averageMonthlySpend[2]

\* C8: incomeSources has exactly one entry per distinct merchantNorm among inflow
\* non-internal transactions; totalAmount is the sum of its amounts, averageAmount =
\* totalAmount / transactionCount, monthCount is the number of distinct months in
\* which the source has an inflow, averageMonthlyAmount = totalAmount / monthCount.
C8_IncomeMonthCountIsDistinctMonths ==
    Done =>
        LET inflows == SelectSeq(derived, CountedIncome)
            names == {inflows[j].merchantNorm : j \in 1..Len(inflows)}
        IN /\ Len(analysis.incomeSources) = Cardinality(names)
           /\ {analysis.incomeSources[i].name : i \in 1..Len(analysis.incomeSources)} = names
           /\ \A i \in 1..Len(analysis.incomeSources) :
                LET src == analysis.incomeSources[i]
                    FromSource(tx) == tx.merchantNorm = src.name
                    txs == SelectSeq(inflows, FromSource)
                IN /\ src.totalAmount = SumAmount(txs)
                   /\ src.transactionCount = Len(txs)
                   /\ src.averageAmount[1] * src.transactionCount
                        = src.totalAmount * src.averageAmount[2]
                   /\ src.monthCount = Cardinality(MonthsOf(txs))
                   /\ src.averageMonthlyAmount[1] * src.monthCount
                        = src.totalAmount * src.averageMonthlyAmount[2]

\* C9: monthlyBreakdown has exactly one entry per distinct monthKey of the derived
\* transactions, in ascending monthKey order; totalInflow and totalOutflow sum only
\* the non-internal transactions of the month, savings = totalInflow - totalOutflow,
\* and transactionCount counts every transaction of the month, internal transfers
\* and zero-amount rows included.
C9_MonthlyBreakdown ==
    Done =>
        LET b == analysis.monthlyBreakdown IN
        /\ {b[i].month : i \in 1..Len(b)} = MonthsOf(derived)
        /\ \A i, k \in 1..Len(b) : i < k => StrLess(b[i].month, b[k].month)
        /\ \A i \in 1..Len(b) :
             LET InMonth(tx) == tx.monthKey = b[i].month
                 monthTx == SelectSeq(derived, InMonth)
             IN /\ b[i].totalInflow = SumAmount(SelectSeq(monthTx, CountedIncome))
                /\ b[i].totalOutflow = SumAbs(SelectSeq(monthTx, CountedSpend))
                /\ b[i].savings = b[i].totalInflow - b[i].totalOutflow
                /\ b[i].transactionCount = Len(monthTx)

\* Months given out of order, one of them holding an internal transfer, a zero-amount
\* row and a counted transaction
C9_Witness ==
    /\ Done
    /\ Len(analysis.monthlyBreakdown) >= 2
    /\ \E j, k \in 1..Len(derived) : j < k /\ StrLess(derived[k].monthKey, derived[j].monthKey)
    /\ \E j \in 1..Len(derived) : ContainsTransfer(derived[j])
    /\ \E j \in 1..Len(derived) : derived[j].amount = 0
    /\ \E j \in 1..Len(derived) : CountedSpend(derived[j]) \/ CountedIncome(derived[j])

-----------------------------------------------------------------------------
(* Zero valid rows *)

\* A cell that holds no digit: no accepted date format matches it
NoDateText(cell) == \A i \in 1..Len(cell) : ~IsDigit(CharAt(cell, i))

HeaderCell(file, c) == toLowerCase(trim(RowsOfFile(file)[1][c]))

\* Every data row of the file holds no date under the file's date columns
EveryRowUndated(file) ==
    \A r \in 2..Len(RowsOfFile(file)) :
        \A c \in 1..Len(RowsOfFile(file)[1]) :
            includes(HeaderCell(file, c), "date") =>
                (c > Len(RowsOfFile(file)[r]) \/ NoDateText(RowsOfFile(file)[r][c]))

\* The files that yield no valid row: empty, header-only, or with a date column and
\* an amount representation but no row with a date
ZeroValidRowFiles ==
    { file \in FileCatalogue :
        \/ Len(RowsOfFile(file)) <= 1
        \/ /\ HeaderContains(file, {"date"})
           /\ HeaderContains(file, {"amount", "debit", "withdrawal", "credit", "deposit"})
           /\ EveryRowUndated(file) }

IsEmptyAnalysis(a) ==
    /\ a # NoAnalysis
    /\ a.totalAverageMonthlyIncome = FracOfInt(0)
    /\ a.monthlyAverageSavings = FracOfInt(0)
    /\ a.monthlyAverageSpend = FracOfInt(0)
    /\ a.totalTransactions = 0
    /\ a.totalInflowTransactions = 0
    /\ a.totalOutflowTransactions = 0
    /\ a.recurringExpenses = <<>>
    /\ a.monthlyBreakdown = <<>>
    /\ a.incomeSources = <<>>
    /\ a.expenseByCategory = <<>>
    /\ a.expenseByMacro = <<>>
    /\ a.recurringEssential = <<>>
    /\ a.recurringLifestyle = <<>>
    /\ a.leakageHotspots = <<>>
    /\ a.monthsCovered = <<>>
    /\ a.startDate = ""
    /\ a.endDate = ""

-----------------------------------------------------------------------------
(* Two monthly statements with one NETFLIX debit each *)

\* The cell of the file's only data row under the first header holding keyword
CellUnder(file, keyword) ==
    RowsOfFile(file)[2][CHOOSE c \in 1..Len(RowsOfFile(file)[1]) :
                            /\ includes(HeaderCell(file, c), keyword)
                            /\ \A b \in 1..(c - 1) : ~includes(HeaderCell(file, b), keyword)]

\* The file holds one data row, a debit of 15.99 described as NETFLIX and dated
\* DD/MM/YYYY with a day above 12
OneNetflixDebit(file) ==
    /\ Len(RowsOfFile(file)) = 2
    /\ HeaderContains(file, {"date"})
    /\ HeaderContains(file, {"description"})
    /\ HeaderContains(file, {"amount"})
    /\ CellUnder(file, "description") = "NETFLIX"
    /\ CellUnder(file, "amount") = "-15.99"
    /\ Len(CellUnder(file, "date")) = 10
    /\ DigitsValue(SubSeq(CellUnder(file, "date"), 1, 2)) > 12

\* The pairs of such files whose debits fall in two different months
NetflixPairs ==
    { pair \in FileCatalogue \X FileCatalogue :
        /\ OneNetflixDebit(pair[1])
        /\ OneNetflixDebit(pair[2])
        /\ SubSeq(CellUnder(pair[1], "date"), 4, 10) # SubSeq(CellUnder(pair[2], "date"), 4, 10) }

\* C12: for two CSV files of two different months, each with one NETFLIX debit of the
\* same amount, the analysis of the two-file batch has exactly one recurringExpenses
\* entry, named NETFLIX, with transactionCount 2, monthCount 2 and
\* estimatedMonthlyCost equal to the mean amount; that entry is in
\* recurringLifestyle and not in recurringEssential.
C12_TwoMonthlyNetflixDebits ==
    (Finished /\ Len(files) = 2 /\ <<files[1], files[2]>> \in NetflixPairs)
    => /\ pc = "done"
       /\ Len(analysis.recurringExpenses) = 1
       /\ analysis.recurringExpenses[1].name = "NETFLIX"
       /\ analysis.recurringExpenses[1].transactionCount = 2
       /\ analysis.recurringExpenses[1].monthCount = 2
       /\ analysis.recurringExpenses[1].estimatedMonthlyCost = Frac(1599, 1)
       /\ analysis.recurringLifestyle = analysis.recurringExpenses
       /\ analysis.recurringEssential = <<>>

-----------------------------------------------------------------------------
(* Leakage hotspots *)

Elements(seq) == {seq[i] : i \in 1..Len(seq)}

\* C13: leakageHotspots holds at most 10 entries, every entry is an element of
\* recurringExpenses, no recurring expense left out has a strictly greater
\* estimatedMonthlyCost than one included, and with 10 or fewer recurring expenses
\* leakageHotspots holds all of them.
C13_LeakageIsTopTen ==
    Done =>
        /\ Len(leakageHotspots) <= 10
        /\ Cardinality(Elements(leakageHotspots)) = Len(leakageHotspots)
        /\ Elements(leakageHotspots) \subseteq Elements(recurringExpenses)
        /\ \A out \in Elements(recurringExpenses) \ Elements(leakageHotspots) :
                \A kept \in Elements(leakageHotspots) :
                    ~FracLess(kept.estimatedMonthlyCost, out.estimatedMonthlyCost)
        /\ Len(recurringExpenses) <= 10 => Elements(leakageHotspots) = Elements(recurringExpenses)

\* Twelve recurring expenses of differing cost, ten of them kept
C13_Witness ==
    /\ Done
    /\ Len(recurringExpenses) = 12
    /\ Len(leakageHotspots) = 10
    /\ recurringExpenses[1].estimatedMonthlyCost # recurringExpenses[12].estimatedMonthlyCost
    /\ recurringExpenses[10].estimatedMonthlyCost # recurringExpenses[11].estimatedMonthlyCost

-----------------------------------------------------------------------------
(* Runs do not observe one another *)

SameInput(a, b) ==
    /\ a.files = b.files
    /\ a.employerHint = b.employerHint
    /\ a.employmentType = b.employmentType

-----------------------------------------------------------------------------
(* Concurrent reads *)

\* C15: whatever the order in which the concurrently issued reads complete, the rows
\* of the files are concatenated in the caller-supplied file order, and no row is
\* processed before every file has been read.
C15_RowsInCallerOrderAfterAllReads ==
    Finished /\ pc # "reading" =>
        /\ Len(readOrder) = Len(files)
        /\ \A i \in 1..Len(files) : reads[i] = <<files[i].text>>
        /\ pc = "done" =>
              standardised
                = standardiseRecords(rowsToRecords(AllRows(TextsOf(files))), SOURCE_NAME).value
        /\ pc = "rejected" =>
              ~standardiseRecords(rowsToRecords(AllRows(TextsOf(files))), SOURCE_NAME).ok

\* Three files whose reads completed last file first, analysed
C15_Witness ==
    /\ pc = "done"
    /\ Len(files) = 3
    /\ readOrder = <<3, 1, 2>>
    /\ Len(standardised) >= 3
    /\ files[1].name # files[3].name

-----------------------------------------------------------------------------
(* Rows of one statement *)

\* The salary payment of the second row, as analysed
IsSalaryRow(tx) ==
    /\ tx.date = [year |-> 2025, month |-> 3, day |-> 20]
    /\ tx.description = "ACME PAY"
    /\ tx.amount = 50000

\* C16: a data row whose date cell is empty or is text that no accepted date format
\* matches is left out of every output (transactionCount included), every other row
\* of the batch is still analysed, and the analysis does not reject because of it.
C16_UndatedRowIsDropped ==
    \A dateCell \in UndatedCells : \A money \in MoneyColumns :
        (Finished /\ files = <<Statement(dateCell, money)>>) =>
            /\ pc = "done"
            /\ Len(standardised) = 1
            /\ IsSalaryRow(standardised[1])
            /\ Len(derived) = 1
            /\ analysis.totalTransactions = 1
            /\ analysis.totalInflowTransactions = 1
            /\ Len(analysis.monthlyBreakdown) = 1
            /\ analysis.monthlyBreakdown[1].month = "2025-03"
            /\ analysis.monthlyBreakdown[1].transactionCount = 1
            /\ analysis.monthlyBreakdown[1].totalInflow = 50000
            /\ analysis.monthlyBreakdown[1].totalOutflow = 0
            /\ analysis.expenseByCategory = <<>>
            /\ analysis.recurringExpenses = <<>>
            /\ Len(analysis.incomeSources) = 1

\* A statement whose first row has an empty date cell, analysed
C16_Witness ==
    /\ pc = "done"
    /\ \E money \in MoneyColumns : files = <<Statement("", money)>>
    /\ Len(standardised) = 1
    /\ IsSalaryRow(standardised[1])

\* Date cells that parse to a date
DatedCells == DateCells \ UndatedCells

\* C17: a data row whose amount cell cannot be parsed as a number is left out of
\* every output and is not counted in transactionCount or totalTransactions.
C17_UnparsableAmountRowIsDropped ==
    \A dateCell \in DatedCells : \A money \in MoneyColumns :
        (Finished /\ files = <<Statement(dateCell, money)>> /\ ~money.parsable) =>
            /\ pc = "done"
            /\ Len(standardised) = 1
            /\ IsSalaryRow(standardised[1])
            /\ Len(derived) = 1
            /\ analysis.totalTransactions = 1
            /\ Len(analysis.monthlyBreakdown) = 1
            /\ analysis.monthlyBreakdown[1].transactionCount = 1

-----------------------------------------------------------------------------
(* Month keys *)

\* YYYY-MM: four digits, a hyphen, two digits
IsYearMonth(key) ==
    /\ Len(key) = 7
    /\ AllDigits(SubSeq(key, 1, 4))
    /\ CharAt(key, 5) = "-"
    /\ AllDigits(SubSeq(key, 6, 7))

\* The place of a transaction's month in the calendar
MonthOrdinal(tx) == tx.date.year * 12 + tx.date.month

KeysOfDerived == {derived[i].monthKey : i \in 1..Len(derived)}

OrdinalsOfDerived == {MonthOrdinal(derived[i]) : i \in 1..Len(derived)}

\* The place in the calendar of the month a key of a retained transaction stands for
OrdinalOfKey(key) ==
    CHOOSE n \in OrdinalsOfDerived :
        \E i \in 1..Len(derived) : derived[i].monthKey = key /\ MonthOrdinal(derived[i]) = n

\* C18: for every input whose dates the parser accepts (numeric dates with 2-, 3- or
\* 4-digit years included), every monthKey has the form YYYY-MM with a 4-digit year
\* and a zero-padded month, monthsCovered lists the months without duplicates in
\* chronological order, startDate is the earliest month of any retained transaction
\* and endDate the latest.
C18_MonthKeysAreChronological ==
    (pc = "done" /\ derived # <<>>) =>
        /\ \A key \in KeysOfDerived : IsYearMonth(key)
        /\ {analysis.monthsCovered[i] : i \in 1..Len(analysis.monthsCovered)} = KeysOfDerived
        /\ \A a, b \in 1..Len(analysis.monthsCovered) :
                a < b => OrdinalOfKey(analysis.monthsCovered[a])
                             < OrdinalOfKey(analysis.monthsCovered[b])
        /\ \A n \in OrdinalsOfDerived :
                /\ OrdinalOfKey(analysis.startDate) <= n
                /\ n <= OrdinalOfKey(analysis.endDate)

-----------------------------------------------------------------------------
(* Debit and credit columns *)

\* Amount layouts of two columns, one for debits (or withdrawals) and one for
\* credits (or deposits), whose cells are numbers or empty
DebitCreditColumns ==
    {money \in MoneyColumns : money.header \in {"Debit,Credit", "Withdrawal,Deposit"}
                                /\ money.parsable}

\* C19: for every record of a file whose amount representation is a separate debit
\* (or withdrawal) column and credit (or deposit) column, the standardized amount is
\* credit - |debit|: a debit of 50.00 with an empty credit gives -50.00, an outflow,
\* and a credit of 50.00 with an empty debit gives +50.00, an inflow.
C19_AmountIsCreditMinusDebit ==
    \A dateCell \in DatedCells : \A money \in DebitCreditColumns :
        (Finished /\ files = <<Statement(dateCell, money)>>) =>
            /\ pc = "done"
            /\ Len(standardised) = 2
            /\ standardised[1].amount = money.credit - Abs(money.debit)
            /\ standardised[2].amount = 50000 - Abs(0)
            /\ Len(derived) = 2
            /\ derived[1].isOutflow = (money.credit < Abs(money.debit))
            /\ derived[1].isInflow = (money.credit > Abs(money.debit))
            /\ (money.debit = 5000 /\ money.credit = 0) =>
                    (standardised[1].amount = -5000 /\ derived[1].isOutflow)
            /\ (money.debit = 0 /\ money.credit = 5000) =>
                    (standardised[1].amount = 5000 /\ derived[1].isInflow)

\* A debit of 50.00 with an empty credit cell, standardised as an outflow of 50.00
C19_Witness ==
    /\ pc = "done"
    /\ \E dateCell \in DatedCells, money \in DebitCreditColumns :
            /\ files = <<Statement(dateCell, money)>>
            /\ money.cells = "50.00,"
    /\ standardised[1].amount = -5000
    /\ derived[1].isOutflow

-----------------------------------------------------------------------------
(* Numeric dates *)

\* A year of two digits is of this century
FullYear(y) == IF y < 100 THEN 2000 + y ELSE y

\* C20: for every numeric date string of the form A/B/Y or A-B-Y, the parsed date has
\* day = A and month = B, both when A > 12 and when A <= 12: "13/01/2025" gives day
\* 13, month 1 and "03/04/2025" gives day 3, month 4; a two-digit year Y is read as
\* 2000 + Y.
C20_NumericDatesAreDayFirst ==
    \A cell \in NumericDateCells : \A money \in MoneyColumns :
        (Finished /\ files = <<Statement(cell.text, money)>>) =>
            /\ pc = "done"
            /\ Len(standardised) = 2
            /\ standardised[1].date.day = cell.a
            /\ standardised[1].date.month = cell.b
            /\ standardised[1].date.year = FullYear(cell.y)

-----------------------------------------------------------------------------
(* Tokenizer *)

\* A record of which every field is empty or white space
IsBlankRecord(fields) == \A i \in 1..Len(fields) : trim(fields[i]) = ""

\* C21 as stated: for every record written in standard CSV quoting the tokenizer
\* returns exactly one row whose cells equal the original field contents.
C21_EveryWrittenRecordIsOneRow ==
    (pc = "done" /\ csvFields # <<>>) => csvRows = <<csvFields>>

\* C21, amended: for every record written in standard CSV quoting that has a field
\* which is not blank, the tokenizer returns exactly one row whose cells equal the
\* original field contents (an embedded comma does not split a cell, an embedded
\* line break does not split the row, each doubled quote becomes one quote); for a
\* record of blank fields only it returns no row.
C21_WrittenRecordIsOneRowUnlessBlank ==
    (pc = "done" /\ csvFields # <<>>) =>
        csvRows = IF IsBlankRecord(csvFields) THEN <<>> ELSE <<csvFields>>

\* A record with a field that holds commas, a line break and quotes, tokenized
C21_Witness ==
    /\ pc = "done"
    /\ Len(csvFields) = 3
    /\ \E i \in 1..3 : csvFields[i] = "\"x\", \"y\"\nz"
    /\ csvRows = <<csvFields>>

-----------------------------------------------------------------------------
(* Column inference *)

\* The keywords of the description column, the preferred one first
DescriptionKeywords ==
    <<"description", "details", "narration", "memo", "payee", "merchant", "reference">>

\* The columns (of a sequence of text columns) that hold the k-th keyword
ColumnsHolding(columns, k) ==
    LET Holds(column) == includes(toLowerCase(column), DescriptionKeywords[k])
    IN SelectSeq(columns, Holds)

\* The column the preference picks: of the first keyword that some column holds,
\* else the first column (none of these columns is the date column)
PreferredColumn(columns) ==
    IF \E k \in 1..Len(DescriptionKeywords) : ColumnsHolding(columns, k) # <<>>
    THEN ColumnsHolding(columns,
            CHOOSE k \in 1..Len(DescriptionKeywords) :
                /\ ColumnsHolding(columns, k) # <<>>
                /\ \A j \in 1..(k - 1) : ColumnsHolding(columns, j) = <<>>)[1]
    ELSE columns[1]

\* C22: the description column is chosen by keyword preference, not by position: a
\* column containing "description" is chosen over one containing "details", which is
\* chosen over "narration", "memo", "payee", "merchant" and "reference" in that
\* order, wherever the columns stand in the header; with no keyword match the first
\* column that is not the date column is used.
C22_DescriptionColumnByPreference ==
    \A first \in ColumnNames, second \in ColumnNames, dateFirst \in BOOLEAN :
        (Finished /\ first # second
                  /\ files = <<DescriptionStatement(first, second, dateFirst)>>) =>
            /\ pc = "done"
            /\ Len(standardised) = 1
            /\ standardised[1].description = CellOf(PreferredColumn(<<first, second>>))

\* What an indicator cell says: -1 when it contains DR, 1 when it contains CR
\* (in either case of letters), 0 when it contains neither
SignOfIndicator(indicator) ==
    IF indicator \in {"DR", "dr"} THEN -1
    ELSE IF indicator \in {"CR", "Cr"} THEN 1
    ELSE 0

\* C23: when a file has a column containing "amount", that column is used even if
\* debit and credit columns also exist; if an indicator column is present, a row whose
\* indicator contains "DR" gets amount -|parsed|, a row whose indicator contains "CR"
\* gets +|parsed|, and a row whose indicator contains neither keeps the sign of the
\* parsed amount.
C23_AmountColumnAndIndicator ==
    \A amountCell \in AmountCells :
        /\ (Finished /\ files = <<AmountAndDebitCreditStatement(amountCell)>>) =>
                /\ pc = "done"
                /\ Len(standardised) = 1
                /\ standardised[1].amount = amountCell.cents
        /\ \A name \in IndicatorNames, indicator \in IndicatorCells :
                (Finished /\ files = <<IndicatorStatement(name, amountCell, indicator)>>) =>
                    /\ pc = "done"
                    /\ Len(standardised) = 1
                    /\ standardised[1].amount =
                            CASE SignOfIndicator(indicator) = -1 -> -Abs(amountCell.cents)
                              [] SignOfIndicator(indicator) = 1 -> Abs(amountCell.cents)
                              [] OTHER -> amountCell.cents

\* A positive amount made an outflow by the indicator DR
C23_Witness ==
    /\ pc = "done"
    /\ \E name \in IndicatorNames, amountCell \in AmountCells :
            /\ files = <<IndicatorStatement(name, amountCell, "DR")>>
            /\ amountCell.cents > 0
    /\ standardised[1].amount = -1599

-----------------------------------------------------------------------------
(* Classification *)

\* The rules of category inference in their order, each with its keywords
CategoryRules ==
    << [category |-> "Rent", keywords |-> {"RENT", "REALESTATE", "REALTY"}],
       [category |-> "Rego", keywords |-> {"REGISTRATION", " REGO", "TRANSPORT DEPT"}],
       [category |-> "Insurance", keywords |-> {"INSURANCE", "NRMA", "AAMI", "ALLIANZ"}],
       [category |-> "Utilities",
        keywords |-> {"ENERGY", "POWER", "AGL", "ELECTRICITY", "WATER", "GAS"}],
       [category |-> "Phone & Internet",
        keywords |-> {"OPTUS", "TELSTRA", "VODAFONE", "AMAYSIM"}],
       [category |-> "Transport", keywords |-> {"UBER", "TRANSLINK", "GO CARD"}],
       [category |-> "Groceries",
        keywords |-> {"COLES", "WOOLWORTHS", "ALDI", "IGA", "GROCER"}],
       [category |-> "Eating Out", keywords |-> {"MCDONALDS", "SUSHI", "CAFE", "BUTCHER"}],
       [category |-> "Subscriptions",
        keywords |-> {"NETFLIX", "SPOTIFY", "APPLECOMBILL", "CHATGPT", "AMZNPRIME"}],
       [category |-> "Parking", keywords |-> {"PARKING", "WESTFIELD", "SHOPPING"}] >>

\* The rules with a keyword that occurs in the merchant, letter case aside
RulesMatching(merchant) ==
    {r \in 1..Len(CategoryRules) :
        \E kw \in CategoryRules[r].keywords : includes(toUpperCase(merchant), kw)}

\* C24: for every merchant string, category inference returns the category of the
\* first rule, in the order Rent, Rego, Insurance, Utilities, Phone & Internet,
\* Transport, Groceries, Eating Out, Subscriptions, Parking, that has a keyword
\* occurring in the merchant, and "Unknown" when no rule matches; it never fails, and
\* the macro-category of "Unknown" and of any category missing from the table is
\* "Lifestyle".
C24_FirstMatchingRuleWins ==
    classified # <<>> =>
        /\ \A merchant \in Merchants :
                (classified[1].call = "inferCategory" /\ classified[1].merchant = merchant) =>
                    classified[1].category =
                        IF RulesMatching(merchant) = {} THEN "Unknown"
                        ELSE CategoryRules[CHOOSE r \in RulesMatching(merchant) :
                                \A q \in RulesMatching(merchant) : r <= q].category
        /\ classified[1].category \in {"Unknown", "Gifts", ""} =>
                classified[1].macroCategory = "Lifestyle"

\* A merchant with keywords of two rules, classified by the earlier rule
C24_Witness ==
    /\ classified # <<>>
    /\ classified[1].merchant = "ALDI GAS"
    /\ classified[1].category = "Utilities"
    /\ Cardinality(RulesMatching("ALDI GAS")) = 2

-----------------------------------------------------------------------------
(* Derived transactions *)

NormalisedChars == "ABCDEFGHIJKLMNOPQRSTUVWXYZ0123456789 "

\* Only A-Z, 0-9 and single spaces, none of them leading or trailing; not empty
IsNormalisedName(name) ==
    /\ name # ""
    /\ \A i \in 1..Len(name) :
            \E c \in 1..Len(NormalisedChars) : CharAt(name, i) = CharAt(NormalisedChars, c)
    /\ CharAt(name, 1) # " "
    /\ CharAt(name, Len(name)) # " "
    /\ \A i \in 1..(Len(name) - 1) : SubSeq(name, i, i + 1) # "  "

HoldsTransfer(name) == \E i \in 1..(Len(name) - 7) : SubSeq(name, i, i + 7) = "TRANSFER"

\* A description without a letter or a digit: nothing is left of it
LeavesNothing(description) == description \in {"***", "", " "}

\* C25: every derived transaction satisfies: isInflow and isOutflow are never both
\* true and are both false exactly when amount is 0; absAmount >= 0 and equals
\* |amount|; merchantNorm is non-empty, contains only A-Z, 0-9 and single spaces with
\* no leading or trailing space ("UNKNOWN" when nothing is left); isInternal is true
\* exactly when merchantNorm contains "TRANSFER"; and normalizing an already
\* normalized merchant name leaves it unchanged.
C25_DerivedTransactionInvariants ==
    (pc = "done" /\ Len(derived) = Len(standardised)) =>
        \A i \in 1..Len(derived) :
            /\ ~(derived[i].isInflow /\ derived[i].isOutflow)
            /\ (~derived[i].isInflow /\ ~derived[i].isOutflow) <=> (derived[i].amount = 0)
            /\ derived[i].absAmount >= 0
            /\ derived[i].absAmount =
                    IF derived[i].amount < 0 THEN -derived[i].amount ELSE derived[i].amount
            /\ IsNormalisedName(derived[i].merchantNorm)
            /\ LeavesNothing(standardised[i].description) => derived[i].merchantNorm = "UNKNOWN"
            /\ derived[i].isInternal <=> HoldsTransfer(derived[i].merchantNorm)
            /\ normaliseMerchant(derived[i].merchantNorm) = derived[i].merchantNorm

\* A description of punctuation only, derived as an outflow of the merchant UNKNOWN
C25_Witness ==
    /\ pc = "done"
    /\ Len(derived) = 1
    /\ standardised[1].description = "***"
    /\ derived[1].merchantNorm = "UNKNOWN"
    /\ derived[1].isOutflow

-----------------------------------------------------------------------------
(* Recurring expenses and totals *)

\* The whole number an amount rounds to
RoundedOf(tx) == (Abs(tx.amount) + 50) \div 100

\* C26: for every entry of recurringExpenses, averageAmount equals the sum of the
\* absolute amounts of the bucket's transactions divided by transactionCount,
\* estimatedMonthlyCost equals averageAmount, and the list is in non-increasing order
\* of estimatedMonthlyCost.
C26_RecurringAveragesAndOrder ==
    Done =>
        /\ \A i \in 1..Len(analysis.recurringExpenses) :
                \E j \in 1..Len(derived) :
                    /\ CountedSpend(derived[j])
                    /\ i \in EntriesOfBucket(derived[j].merchantNorm, RoundedOf(derived[j]))
                    /\ analysis.recurringExpenses[i].transactionCount
                            = Len(BucketOf(derived[j].merchantNorm, RoundedOf(derived[j])))
                    /\ analysis.recurringExpenses[i].averageAmount[1]
                            * analysis.recurringExpenses[i].transactionCount
                          = SumAbs(BucketOf(derived[j].merchantNorm, RoundedOf(derived[j])))
                            * analysis.recurringExpenses[i].averageAmount[2]
                    /\ analysis.recurringExpenses[i].estimatedMonthlyCost
                            = analysis.recurringExpenses[i].averageAmount
        /\ \A a, b \in 1..Len(analysis.recurringExpenses) :
                a < b => analysis.recurringExpenses[a].estimatedMonthlyCost[1]
                            * analysis.recurringExpenses[b].estimatedMonthlyCost[2]
                         >= analysis.recurringExpenses[b].estimatedMonthlyCost[1]
                            * analysis.recurringExpenses[a].estimatedMonthlyCost[2]

\* Two recurring expenses, the dearer first although it was met last; the cheaper
\* one averages 15.99 and 16.20
C26_Witness ==
    /\ Done
    /\ Len(analysis.recurringExpenses) = 2
    /\ derived[1].merchantNorm = "NETFLIXCOM"
    /\ analysis.recurringExpenses[1].name = "RENT"
    /\ analysis.recurringExpenses[2].averageAmount = <<3219, 2>>

\* The sum of |amount| over the outflow transactions that are not internal
TotalCountedSpend == SumAbs(SelectSeq(derived, CountedSpend))

C28_TransactionCounts ==
    Done =>
        /\ analysis.totalTransactions = Len(derived)
        /\ analysis.totalInflowTransactions = Len(SelectSeq(derived, CountedIncome))
        /\ analysis.totalOutflowTransactions = Len(SelectSeq(derived, CountedSpend))

\* The places of the list where an entry of the macro-category stands
PlacesOf(macroCategory) ==
    {i \in 1..Len(analysis.recurringExpenses) :
        analysis.recurringExpenses[i].macroCategory = macroCategory}

\* C29: for every input, recurringEssential and recurringLifestyle are disjoint and
\* together contain every entry of recurringExpenses: no recurring expense has a
\* macro-category other than Essential or Lifestyle.
C29_EssentialAndLifestylePartition ==
    Done =>
        /\ \A i \in 1..Len(analysis.recurringExpenses) :
                analysis.recurringExpenses[i].macroCategory \in {"Essential", "Lifestyle"}
        /\ \A i \in 1..Len(analysis.recurringEssential) :
                \A j \in 1..Len(analysis.recurringLifestyle) :
                    analysis.recurringEssential[i] # analysis.recurringLifestyle[j]
        /\ Len(analysis.recurringEssential) + Len(analysis.recurringLifestyle)
                = Len(analysis.recurringExpenses)
        /\ \A i \in 1..Len(analysis.recurringExpenses) :
                \/ \E j \in 1..Len(analysis.recurringEssential) :
                        analysis.recurringEssential[j] = analysis.recurringExpenses[i]
                \/ \E j \in 1..Len(analysis.recurringLifestyle) :
                        analysis.recurringLifestyle[j] = analysis.recurringExpenses[i]
        /\ Len(analysis.recurringEssential) = Cardinality(PlacesOf("Essential"))
        /\ Len(analysis.recurringLifestyle) = Cardinality(PlacesOf("Lifestyle"))

\* An essential and a lifestyle recurring expense, one in each list
C29_Witness ==
    /\ Done
    /\ Len(analysis.recurringExpenses) = 2
    /\ Len(analysis.recurringEssential) = 1
    /\ Len(analysis.recurringLifestyle) = 1
    /\ analysis.recurringEssential[1].name = "RENT"
    /\ analysis.recurringLifestyle[1].name = "NETFLIXCOM"

-----------------------------------------------------------------------------
(* Sessions *)

\* C30: after any sequence of registerUser, authenticateUser (with remember true or
\* false) and signOutUser calls, getCurrentUser called right after a successful
\* authenticateUser returns the user that was just authenticated, and getCurrentUser
\* called right after signOutUser returns null.
C30_CurrentUserFollowsLastCall ==
    (lastCall.op = "getCurrentUser" /\ lastCall.after # <<>>) =>
        /\ (lastCall.after[1].op = "authenticateUser" /\ lastCall.after[1].ok) =>
                currentUser = lastCall.after[1].user
        /\ lastCall.after[1].op = "signOutUser" => currentUser = <<>>
====
